---- MODULE Spec2Model ----
(***************************************************************************)
(* ypbank: three codecs for bank-transaction records (length-framed        *)
(* binary, CSV, key-value block text), the conversion pipeline and the     *)
(* reconciliation engine.                                                  *)
(*                                                                         *)
(* Streams are sequences of bytes (0..255).  Text is a sequence of Unicode *)
(* code points; the text codecs write it as UTF-8 and decode it on read.   *)
(* Integers are the values of the Rust fields.  The model keeps the wire   *)
(* width (8 bytes for u64/i64, 4 for u32) but draws the values from the    *)
(* 32-bit range, the range of the checker's integers: the upper four bytes *)
(* of an 8-byte field are then the sign extension.                         *)
(***************************************************************************)
EXTENDS Integers, Sequences, FiniteSets, TLC

---------------------------------------------------------------------------
(* Results: Ok(v) and Err(e) of Result<_, BankFormatError>.  An error      *)
(* carries its variant, the literal part of its message and the formatted  *)
(* argument.                                                               *)

Ok(v) == [ok |-> TRUE, val |-> v]

Err(kind, msg, arg) == [ok |-> FALSE, err |-> [kind |-> kind, msg |-> msg, arg |-> arg]]

NoResult == [ok |-> FALSE, err |-> [kind |-> "none", msg |-> "", arg |-> <<>>]]

---------------------------------------------------------------------------
(* Characters the codecs test for, as code points.                         *)

LF == 10

CR == 13

QUOTE == 34

HASH == 35

COMMA == 44

COLON == 58

Min(S) == CHOOSE m \in S : \A n \in S : m <= n

Max(S) == CHOOSE m \in S : \A n \in S : m >= n

\* The concatenation of the sequences of ss, in order.
RECURSIVE Concat(_)
Concat(ss) ==
    IF ss = <<>> THEN <<>>
    ELSE IF Len(ss) = 1 THEN ss[1]
    ELSE LET h == Len(ss) \div 2
         IN  Concat(SubSeq(ss, 1, h)) \o Concat(SubSeq(ss, h + 1, Len(ss)))

---------------------------------------------------------------------------
(* UTF-8: String::as_bytes / write! of a str, and String::from_utf8.       *)

Utf8Char(c) ==
    IF c < 128 THEN <<c>>
    ELSE IF c < 2048 THEN <<192 + (c \div 64), 128 + (c % 64)>>
    ELSE IF c < 65536 THEN <<224 + (c \div 4096), 128 + ((c \div 64) % 64), 128 + (c % 64)>>
    ELSE <<240 + (c \div 262144), 128 + ((c \div 4096) % 64),
           128 + ((c \div 64) % 64), 128 + (c % 64)>>

as_bytes(s) ==
    IF \A i \in 1..Len(s) : s[i] < 128 THEN s
    ELSE Concat([i \in 1..Len(s) |-> Utf8Char(s[i])])

IsCont(b) == b >= 128 /\ b <= 191

\* Number of bytes of the well-formed sequence starting at b[i], 0 if none.
Utf8Width(b, i) ==
    LET n  == Len(b)
        b0 == b[i]
        b1 == b[i + 1]
    IN  IF b0 < 128 THEN 1
        ELSE IF b0 >= 194 /\ b0 <= 223
            THEN IF i + 1 <= n /\ IsCont(b1) THEN 2 ELSE 0
        ELSE IF b0 >= 224 /\ b0 <= 239
            THEN IF /\ i + 2 <= n
                    /\ IsCont(b1) /\ IsCont(b[i + 2])
                    /\ (b0 = 224 => b1 >= 160)
                    /\ (b0 = 237 => b1 <= 159)
                 THEN 3 ELSE 0
        ELSE IF b0 >= 240 /\ b0 <= 244
            THEN IF /\ i + 3 <= n
                    /\ IsCont(b1) /\ IsCont(b[i + 2]) /\ IsCont(b[i + 3])
                    /\ (b0 = 240 => b1 >= 144)
                    /\ (b0 = 244 => b1 <= 143)
                 THEN 4 ELSE 0
        ELSE 0

Utf8Value(b, i, w) ==
    CASE w = 1 -> b[i]
      [] w = 2 -> (b[i] - 192) * 64 + (b[i + 1] - 128)
      [] w = 3 -> (b[i] - 224) * 4096 + (b[i + 1] - 128) * 64 + (b[i + 2] - 128)
      [] w = 4 -> (b[i] - 240) * 262144 + (b[i + 1] - 128) * 4096
                  + (b[i + 2] - 128) * 64 + (b[i + 3] - 128)

RECURSIVE Utf8From(_, _, _)
Utf8From(b, i, acc) ==
    IF i > Len(b) THEN Ok(acc)
    ELSE LET w == Utf8Width(b, i)
         IN  IF w = 0 THEN Err("Utf8", "invalid utf-8 sequence", <<i - 1>>)
             ELSE Utf8From(b, i + w, Append(acc, Utf8Value(b, i, w)))

from_utf8(b) == IF \A i \in 1..Len(b) : b[i] < 128 THEN Ok(b) ELSE Utf8From(b, 1, <<>>)

---------------------------------------------------------------------------
(* Fixed-width big-endian integers.                                        *)

Pow256(k) == CASE k = 0 -> 1 [] k = 1 -> 256 [] k = 2 -> 65536 [] k = 3 -> 16777216

\* Byte k (0 = least significant) of the two's-complement pattern of v.
ByteOf(v, k) == IF k < 4 THEN (v \div Pow256(k)) % 256 ELSE IF v < 0 THEN 255 ELSE 0

to_be_bytes(v, n) == [i \in 1..n |-> ByteOf(v, n - i)]

Low32(b) ==
    LET n == Len(b)
    IN  b[n] + 256 * b[n - 1] + 65536 * b[n - 2] + 16777216 * b[n - 3]

\* u32::from_be_bytes / u64::from_be_bytes, on the patterns below 2^31.
from_be_bytes(b) ==
    CASE (\A i \in 1..(Len(b) - 4) : b[i] = 0) /\ b[Len(b) - 3] < 128 -> Low32(b)

\* u64::from_be_bytes(b) as i64 and i64::from_be_bytes(b).
from_be_bytes_i64(b) ==
    CASE (\A i \in 1..4 : b[i] = 0) /\ b[5] < 128 -> Low32(b)
      [] (\A i \in 1..4 : b[i] = 255) /\ b[5] >= 128 ->
            -1 - Low32([i \in 1..4 |-> 255 - b[4 + i]])

---------------------------------------------------------------------------
(* Decimal text of integers: Display for u64/i64 and str::parse.           *)

RECURSIVE Digits(_)
Digits(n) == IF n < 10 THEN <<48 + n>> ELSE Append(Digits(n \div 10), 48 + (n % 10))

to_string(v) == IF v < 0 THEN <<45>> \o Digits(-v) ELSE Digits(v)

IsDigit(c) == c >= 48 /\ c <= 57

RECURSIVE DigitsValue(_, _, _)
DigitsValue(s, i, acc) ==
    IF i > Len(s) THEN acc ELSE DigitsValue(s, i + 1, acc * 10 + (s[i] - 48))

\* str::parse::<u64>() (signed = FALSE) and str::parse::<i64>() (signed = TRUE):
\* an optional sign ('+', and '-' for a signed type), then at least one digit.
parse_int(s, signed) ==
    LET hasSign == Len(s) > 0 /\ (s[1] = 43 \/ (s[1] = 45 /\ signed))
        body    == IF hasSign THEN Tail(s) ELSE s
    IN  IF body = <<>> \/ \E i \in 1..Len(body) : ~IsDigit(body[i])
        THEN [ok |-> FALSE, val |-> 0]
        ELSE [ok |-> TRUE,
              val |-> IF hasSign /\ s[1] = 45 THEN -DigitsValue(body, 1, 0)
                      ELSE DigitsValue(body, 1, 0)]

---------------------------------------------------------------------------
(* The record model: Transaction and its two closed enumerations.          *)

TxTypes == {"Deposit", "Transfer", "Withdrawal"}

Statuses == {"Success", "Failure", "Pending"}

Transaction(id, ty, from, to, amount, ts, st, desc) ==
    [tx_id |-> id, tx_type |-> ty, from_user_id |-> from, to_user_id |-> to,
     amount |-> amount, timestamp |-> ts, status |-> st, description |-> desc]

\* impl Display for TxType
TxTypeText(t) ==
    CASE t = "Deposit"    -> <<68, 69, 80, 79, 83, 73, 84>>
      [] t = "Transfer"   -> <<84, 82, 65, 78, 83, 70, 69, 82>>
      [] t = "Withdrawal" -> <<87, 73, 84, 72, 68, 82, 65, 87, 65, 76>>

\* impl Display for Status
StatusText(s) ==
    CASE s = "Success" -> <<83, 85, 67, 67, 69, 83, 83>>
      [] s = "Failure" -> <<70, 65, 73, 76, 85, 82, 69>>
      [] s = "Pending" -> <<80, 69, 78, 68, 73, 78, 71>>

---------------------------------------------------------------------------
(* Binary codec (bin_format.rs).                                           *)

MAGIC == <<89, 80, 66, 78>>

MAX_DESC_LEN == 4096

\* Smallest record_size read_all accepts: the body without a description.
MIN_RECORD_SIZE == 46

TxTypeByte(t) == CASE t = "Deposit" -> 0 [] t = "Transfer" -> 1 [] t = "Withdrawal" -> 2

StatusByte(s) == CASE s = "Success" -> 0 [] s = "Failure" -> 1 [] s = "Pending" -> 2

\* The match on the tx_type byte and on the status byte in read_all.
TxTypeOfByte(b) == CASE b = 0 -> "Deposit" [] b = 1 -> "Transfer" [] b = 2 -> "Withdrawal"

StatusOfByte(b) == CASE b = 0 -> "Success" [] b = 1 -> "Failure" [] b = 2 -> "Pending"

\* RecordSize counting the magic and the record_size field as well.
RecordSizeWhole(desc_len) == 4 + 4 + 8 + 1 + 8 + 8 + 8 + 8 + 1 + 4 + desc_len

\* The record_size write_all computes: 8 + 1 + 8 + 8 + 8 + 8 + 1 + 4 + desc_len.
RecordSize(desc_len) == 8 + 1 + 8 + 8 + 8 + 8 + 1 + 4 + desc_len

\* One iteration of the loop of BinFormat::write_all: the bytes of one record.
\* BinEncodeRecord with desc_len counted in characters, not in bytes.
BinEncodeRecordCharLen(tx) ==
    LET desc_bytes == as_bytes(tx.description)
        desc_len   == Len(desc_bytes)
    IN  MAGIC
        \o to_be_bytes(RecordSize(desc_len), 4)
        \o to_be_bytes(tx.tx_id, 8)
        \o <<TxTypeByte(tx.tx_type)>>
        \o to_be_bytes(tx.from_user_id, 8)
        \o to_be_bytes(tx.to_user_id, 8)
        \o to_be_bytes(tx.amount, 8)
        \o to_be_bytes(tx.timestamp, 8)
        \o <<StatusByte(tx.status)>>
        \o to_be_bytes(Len(tx.description), 4)
        \o desc_bytes

\* BinEncodeRecord writing no more than MAX_DESC_LEN bytes of description.
BinEncodeRecordCapped(tx) ==
    LET all_bytes  == as_bytes(tx.description)
        desc_bytes == SubSeq(all_bytes, 1, Min({Len(all_bytes), MAX_DESC_LEN}))
        desc_len   == Len(desc_bytes)
    IN  MAGIC
        \o to_be_bytes(RecordSize(desc_len), 4)
        \o to_be_bytes(tx.tx_id, 8)
        \o <<TxTypeByte(tx.tx_type)>>
        \o to_be_bytes(tx.from_user_id, 8)
        \o to_be_bytes(tx.to_user_id, 8)
        \o to_be_bytes(tx.amount, 8)
        \o to_be_bytes(tx.timestamp, 8)
        \o <<StatusByte(tx.status)>>
        \o to_be_bytes(desc_len, 4)
        \o (IF desc_len > 0 THEN desc_bytes ELSE <<>>)

BinEncodeRecord(tx) ==
    LET desc_bytes == as_bytes(tx.description)
        desc_len   == Len(desc_bytes)
    IN  MAGIC
        \o to_be_bytes(RecordSize(desc_len), 4)
        \o to_be_bytes(tx.tx_id, 8)
        \o <<TxTypeByte(tx.tx_type)>>
        \o to_be_bytes(tx.from_user_id, 8)
        \o to_be_bytes(tx.to_user_id, 8)
        \o to_be_bytes(tx.amount, 8)
        \o to_be_bytes(tx.timestamp, 8)
        \o <<StatusByte(tx.status)>>
        \o to_be_bytes(desc_len, 4)
        \o (IF desc_len > 0 THEN desc_bytes ELSE <<>>)

\* Read::read_exact of n bytes at offset pos succeeds iff n bytes remain.
CanRead(data, pos, n) == pos + n <= Len(data)

Bytes(data, pos, n) == SubSeq(data, pos + 1, pos + n)

IoEof == Err("Io", "UnexpectedEof", <<>>)

\* The outcome of one iteration of the loop of BinFormat::read_all: the
\* loop ends ("break"), read_all returns an error ("err"), or a transaction
\* is pushed ("tx"); pos is the offset the reader is left at.
Break(data) == [tag |-> "break", pos |-> Len(data)]

\* Truncated taking the end of the stream inside a record for the end of
\* the records.
TruncatedAsEnd(data) == Break(data)

\* read_exact fails with UnexpectedEof after consuming what was left.
Truncated(data) == [tag |-> "err", res |-> IoEof, pos |-> Len(data)]

\* Invalid ending the loop, so that read_all returns the records before the
\* malformed one.
InvalidAsEnd(msg, arg, p) == [tag |-> "break", pos |-> p]

Invalid(msg, arg, p) == [tag |-> "err", res |-> Err("InvalidBinary", msg, arg), pos |-> p]

\* BinReadDescription with the cap one byte too low.
BinReadDescriptionBelowCap(data, p, tx) ==
    LET desc_len == from_be_bytes(Bytes(data, p, 4))
        text     == from_utf8(Bytes(data, p + 4, desc_len))
    IN  IF desc_len >= MAX_DESC_LEN
        THEN Invalid("description length exceeds maximum allowed",
                     <<desc_len, MAX_DESC_LEN>>, p + 4)
        ELSE IF desc_len = 0
        THEN [tag |-> "tx", tx |-> [tx EXCEPT !.description = <<>>], pos |-> p + 4]
        ELSE IF ~CanRead(data, p + 4, desc_len) THEN Truncated(data)
        ELSE IF ~text.ok THEN Invalid(text.err.msg, text.err.arg, p + 4 + desc_len)
        ELSE [tag |-> "tx", tx |-> [tx EXCEPT !.description = text.val],
              pos |-> p + 4 + desc_len]

\* BinReadDescription taking the length of the description from the declared
\* record_size, 46 bytes before the desc_len field, instead of desc_len.
BinReadDescriptionBySize(data, p, tx) ==
    LET desc_len == from_be_bytes(Bytes(data, p - MIN_RECORD_SIZE, 4)) - MIN_RECORD_SIZE
        text     == from_utf8(Bytes(data, p + 4, desc_len))
    IN  IF desc_len > MAX_DESC_LEN
        THEN Invalid("description length exceeds maximum allowed",
                     <<desc_len, MAX_DESC_LEN>>, p + 4)
        ELSE IF desc_len = 0
        THEN [tag |-> "tx", tx |-> [tx EXCEPT !.description = <<>>], pos |-> p + 4]
        ELSE IF ~CanRead(data, p + 4, desc_len) THEN Truncated(data)
        ELSE IF ~text.ok THEN Invalid(text.err.msg, text.err.arg, p + 4 + desc_len)
        ELSE [tag |-> "tx", tx |-> [tx EXCEPT !.description = text.val],
              pos |-> p + 4 + desc_len]

\* DESC_LEN and DESCRIPTION of the record whose desc_len field is at offset p.
BinReadDescription(data, p, tx) ==
    LET desc_len == from_be_bytes(Bytes(data, p, 4))
        text     == from_utf8(Bytes(data, p + 4, desc_len))
    IN  IF desc_len > MAX_DESC_LEN
        THEN Invalid("description length exceeds maximum allowed",
                     <<desc_len, MAX_DESC_LEN>>, p + 4)
        ELSE IF desc_len = 0
        THEN [tag |-> "tx", tx |-> [tx EXCEPT !.description = <<>>], pos |-> p + 4]
        ELSE IF ~CanRead(data, p + 4, desc_len) THEN Truncated(data)
        ELSE IF ~text.ok THEN Invalid(text.err.msg, text.err.arg, p + 4 + desc_len)
        ELSE [tag |-> "tx", tx |-> [tx EXCEPT !.description = text.val],
              pos |-> p + 4 + desc_len]

\* What the loop does when read_exact(&mut magic) fails with UnexpectedEof,
\* which is the error of a stream with fewer than 4 bytes left, none included.
MagicEof(data, pos) == Break(data)

\* BadMagic taking a foreign magic for the end of the stream.
BadMagicAsEof(data, pos) == Break(data)

\* The magic read at offset pos is not MAGIC: read_all returns at once.
BadMagic(data, pos) == Invalid("invalid magic", Bytes(data, pos, 4), pos + 4)

\* One iteration of the loop of BinFormat::read_all on the stream data at
\* offset pos.
BinReadRecordAt(data, pos) ==
    LET magic    == Bytes(data, pos, 4)
        record_size == from_be_bytes(Bytes(data, pos + 4, 4))
        tyb      == data[pos + 17]
        stb      == data[pos + 50]
        tx       == [tx_id        |-> from_be_bytes(Bytes(data, pos + 8, 8)),
                     tx_type      |-> TxTypeOfByte(tyb),
                     from_user_id |-> from_be_bytes_i64(Bytes(data, pos + 17, 8)),
                     to_user_id   |-> from_be_bytes_i64(Bytes(data, pos + 25, 8)),
                     amount       |-> from_be_bytes_i64(Bytes(data, pos + 33, 8)),
                     timestamp    |-> from_be_bytes_i64(Bytes(data, pos + 41, 8)),
                     status       |-> StatusOfByte(stb),
                     description  |-> <<>>]
    IN  IF ~CanRead(data, pos, 4) THEN MagicEof(data, pos)
        ELSE IF magic # MAGIC THEN BadMagic(data, pos)
        ELSE IF ~CanRead(data, pos + 4, 4) THEN Truncated(data)
        ELSE IF record_size < MIN_RECORD_SIZE
            THEN Invalid("record_size is too small, minimum is 46 bytes",
                         <<record_size>>, pos + 8)
        ELSE IF ~CanRead(data, pos + 8, 8) THEN Truncated(data)
        ELSE IF ~CanRead(data, pos + 16, 1) THEN Truncated(data)
        ELSE IF tyb \notin {0, 1, 2} THEN Invalid("unknown tx_type byte", <<tyb>>, pos + 17)
        ELSE IF ~CanRead(data, pos + 17, 8) THEN Truncated(data)
        ELSE IF ~CanRead(data, pos + 25, 8) THEN Truncated(data)
        ELSE IF ~CanRead(data, pos + 33, 8) THEN Truncated(data)
        ELSE IF ~CanRead(data, pos + 41, 8) THEN Truncated(data)
        ELSE IF ~CanRead(data, pos + 49, 1) THEN Truncated(data)
        ELSE IF stb \notin {0, 1, 2} THEN Invalid("unknown status byte", <<stb>>, pos + 50)
        ELSE IF ~CanRead(data, pos + 50, 4) THEN Truncated(data)
        ELSE BinReadDescription(data, pos + 50, tx)

---------------------------------------------------------------------------
(* Key-value block-text codec (txt_format.rs).                             *)

\* char::is_whitespace (the Unicode White_Space property), used by str::trim.
IsWhitespace(c) ==
    \/ c \in {9, 10, 11, 12, 13, 32, 133, 160, 5760, 8232, 8233, 8239, 8287, 12288}
    \/ (c >= 8192 /\ c <= 8202)

\* What is left of s between the first and the last of the positions keep.
Between(s, keep) ==
    IF keep = {} THEN <<>> ELSE SubSeq(s, Min(keep), Max(keep))

\* str::trim.
trim(s) == Between(s, {i \in 1..Len(s) : ~IsWhitespace(s[i])})

IsQuote(c) == c = QUOTE

\* str::trim_matches('"').
trim_quotes(s) == Between(s, {i \in 1..Len(s) : ~IsQuote(s[i])})

KEY_TX_ID == <<84, 88, 95, 73, 68>>

KEY_TX_TYPE == <<84, 88, 95, 84, 89, 80, 69>>

KEY_FROM_USER_ID == <<70, 82, 79, 77, 95, 85, 83, 69, 82, 95, 73, 68>>

KEY_TO_USER_ID == <<84, 79, 95, 85, 83, 69, 82, 95, 73, 68>>

KEY_AMOUNT == <<65, 77, 79, 85, 78, 84>>

KEY_TIMESTAMP == <<84, 73, 77, 69, 83, 84, 65, 77, 80>>

KEY_STATUS == <<83, 84, 65, 84, 85, 83>>

KEY_DESCRIPTION == <<68, 69, 83, 67, 82, 73, 80, 84, 73, 79, 78>>

\* writeln!(w, "KEY: {}", value)
TxtLine(key, value) == key \o <<COLON, 32>> \o value \o <<LF>>

\* One iteration of the loop of TxtFormat::write_all: the block of record
\* number i (counted from 0), as the bytes handed to the writer.
TxtEncodeRecord(i, tx) ==
    as_bytes(
        (<<HASH, 32>> \o <<82, 101, 99, 111, 114, 100, 32>> \o to_string(i + 1)
            \o <<32, 40>> \o TxTypeText(tx.tx_type) \o <<41, LF>>)
        \o TxtLine(KEY_TX_ID, to_string(tx.tx_id))
        \o TxtLine(KEY_TX_TYPE, TxTypeText(tx.tx_type))
        \o TxtLine(KEY_FROM_USER_ID, to_string(tx.from_user_id))
        \o TxtLine(KEY_TO_USER_ID, to_string(tx.to_user_id))
        \o TxtLine(KEY_AMOUNT, to_string(tx.amount))
        \o TxtLine(KEY_TIMESTAMP, to_string(tx.timestamp))
        \o TxtLine(KEY_STATUS, StatusText(tx.status))
        \o TxtLine(KEY_DESCRIPTION, <<QUOTE>> \o tx.description \o <<QUOTE>>)
        \o <<LF>>)

\* The HashMap<String, String> accumulator: a function from keys to values.
EmptyMap == [k \in {} |-> <<>>]

\* MapInsert keeping the value a key already has.
MapInsertKeepsFirst(m, key, value) ==
    [k \in DOMAIN m \cup {key} |-> IF k \in DOMAIN m THEN m[k] ELSE value]

MapInsert(m, key, value) ==
    [k \in DOMAIN m \cup {key} |-> IF k = key THEN value ELSE m[k]]

\* BufRead::lines: the next line of data after offset pos, without its "\n"
\* or "\r\n"; next is the offset after the line.
NextLine(data, pos) ==
    LET ends == {i \in (pos + 1)..Len(data) : data[i] = LF}
        stop == IF ends = {} THEN Len(data) + 1 ELSE Min(ends)
        raw  == SubSeq(data, pos + 1, stop - 1)
        cut  == IF ends # {} /\ raw # <<>> /\ raw[Len(raw)] = CR
                THEN SubSeq(raw, 1, Len(raw) - 1) ELSE raw
    IN  [text |-> from_utf8(cut), next |-> IF ends = {} THEN Len(data) ELSE stop]

\* line.split_once(':')
SplitOnce(line, sep) ==
    LET at == {i \in 1..Len(line) : line[i] = sep}
    IN  IF at = {} THEN [found |-> FALSE]
        ELSE [found |-> TRUE,
              key   |-> SubSeq(line, 1, Min(at) - 1),
              value |-> SubSeq(line, Min(at) + 1, Len(line))]

\* TxtLineEffect with an empty line ending the record as a '#' line does.
TxtLineEffectBlankEnds(cur, line) ==
    LET kv == SplitOnce(line, COLON)
    IN  IF line = <<>> \/ line[1] = HASH
        THEN [flush |-> cur # EmptyMap, current |-> EmptyMap]
        ELSE IF kv.found
        THEN [flush |-> FALSE,
              current |-> MapInsert(cur, trim(kv.key), trim_quotes(trim(kv.value)))]
        ELSE [flush |-> FALSE, current |-> cur]

\* The body of the loop of TxtFormat::read_all for one trimmed line: the
\* accumulator after the line (flush = TRUE when the line is a '#' line met
\* with a non-empty accumulator, which parses and clears it).
TxtLineEffect(cur, line) ==
    LET kv == SplitOnce(line, COLON)
    IN  IF line # <<>> /\ line[1] = HASH
        THEN [flush |-> cur # EmptyMap, current |-> EmptyMap]
        ELSE IF kv.found
        THEN [flush |-> FALSE,
              current |-> MapInsert(cur, trim(kv.key), trim_quotes(trim(kv.value)))]
        ELSE [flush |-> FALSE, current |-> cur]

\* parse_tx_type that takes the lower-case tokens too.
parse_tx_type_any_case(s) ==
    CASE s \in {<<68, 69, 80, 79, 83, 73, 84>>, <<100, 101, 112, 111, 115, 105, 116>>} -> Ok("Deposit")
      [] s \in {<<84, 82, 65, 78, 83, 70, 69, 82>>, <<116, 114, 97, 110, 115, 102, 101, 114>>} -> Ok("Transfer")
      [] s \in {<<87, 73, 84, 72, 68, 82, 65, 87, 65, 76>>, <<119, 105, 116, 104, 100, 114, 97, 119, 97, 108>>} -> Ok("Withdrawal")
      [] OTHER -> Err("Parse", "unknown tx_type", s)

\* TxtFormat::parse_tx_type
parse_tx_type(s) ==
    CASE s = <<68, 69, 80, 79, 83, 73, 84>> -> Ok("Deposit")
      [] s = <<84, 82, 65, 78, 83, 70, 69, 82>> -> Ok("Transfer")
      [] s = <<87, 73, 84, 72, 68, 82, 65, 87, 65, 76>> -> Ok("Withdrawal")
      [] OTHER -> Err("Parse", "unknown tx_type", s)

\* TxtFormat::parse_status
parse_status(s) ==
    CASE s = <<83, 85, 67, 67, 69, 83, 83>> -> Ok("Success")
      [] s = <<70, 65, 73, 76, 85, 82, 69>> -> Ok("Failure")
      [] s = <<80, 69, 78, 68, 73, 78, 71>> -> Ok("Pending")
      [] OTHER -> Err("Parse", "unknown status", s)

\* The fields of parse_map in the order it evaluates them.
TxtFields ==
    << [key |-> KEY_TX_ID,        kind |-> "u64",    name |-> "TX_ID"],
       [key |-> KEY_TX_TYPE,      kind |-> "type",   name |-> "TX_TYPE"],
       [key |-> KEY_FROM_USER_ID, kind |-> "i64",    name |-> "FROM_USER_ID"],
       [key |-> KEY_TO_USER_ID,   kind |-> "i64",    name |-> "TO_USER_ID"],
       [key |-> KEY_AMOUNT,       kind |-> "i64",    name |-> "AMOUNT"],
       [key |-> KEY_TIMESTAMP,    kind |-> "i64",    name |-> "TIMESTAMP"],
       [key |-> KEY_STATUS,       kind |-> "status", name |-> "STATUS"],
       [key |-> KEY_DESCRIPTION,  kind |-> "text",   name |-> "DESCRIPTION"] >>

\* One field of a text record: the value, or the error naming the field.
ParseField(kind, name, s) ==
    CASE kind = "u64"    -> IF parse_int(s, FALSE).ok THEN Ok(parse_int(s, FALSE).val)
                            ELSE Err("Parse", name, <<>>)
      [] kind = "i64"    -> IF parse_int(s, TRUE).ok THEN Ok(parse_int(s, TRUE).val)
                            ELSE Err("Parse", name, <<>>)
      [] kind = "type"   -> parse_tx_type(s)
      [] kind = "status" -> parse_status(s)
      [] kind = "text"   -> Ok(s)

\* TxtFieldResult taking a missing key for an empty value.
TxtFieldResultEmptyDefault(map, i) ==
    ParseField(TxtFields[i].kind, TxtFields[i].name,
               IF TxtFields[i].key \in DOMAIN map THEN map[TxtFields[i].key] ELSE <<>>)

\* TxtFormat::parse_map: the first field that is missing or does not parse
\* decides the error.
TxtFieldResult(map, i) ==
    IF TxtFields[i].key \notin DOMAIN map
    THEN Err("Parse", "missing field", TxtFields[i].key)
    ELSE ParseField(TxtFields[i].kind, TxtFields[i].name, map[TxtFields[i].key])

parse_map(map) ==
    LET bad == {i \in 1..8 : ~TxtFieldResult(map, i).ok}
        v(i) == TxtFieldResult(map, i).val
    IN  IF bad # {} THEN TxtFieldResult(map, Min(bad))
        ELSE Ok(Transaction(v(1), v(2), v(3), v(4), v(5), v(6), v(7), v(8)))

---------------------------------------------------------------------------
(* Table-text codec (csv_format.rs), over csv::Writer and csv::Reader in   *)
(* their default configuration: delimiter ',', quote '"' doubled inside a  *)
(* quoted field, quoting only when necessary, a header row, records of     *)
(* equal length.                                                           *)

\* The column names write_all writes as the first record.
CsvHeader ==
    << <<116, 120, 95, 105, 100>>,
       <<116, 120, 95, 116, 121, 112, 101>>,
       <<102, 114, 111, 109, 95, 117, 115, 101, 114, 95, 105, 100>>,
       <<116, 111, 95, 117, 115, 101, 114, 95, 105, 100>>,
       <<97, 109, 111, 117, 110, 116>>,
       <<116, 105, 109, 101, 115, 116, 97, 109, 112>>,
       <<115, 116, 97, 116, 117, 115>>,
       <<100, 101, 115, 99, 114, 105, 112, 116, 105, 111, 110>> >>

\* A field is quoted when it holds the delimiter, the quote or a line break.
NeedsQuotes(f) == \E i \in 1..Len(f) : f[i] \in {COMMA, QUOTE, CR, LF}

CsvQuoteField(f) ==
    <<QUOTE>> \o Concat([i \in 1..Len(f) |-> IF f[i] = QUOTE THEN <<QUOTE, QUOTE>> ELSE <<f[i]>>])
    \o <<QUOTE>>

\* CsvField that never quotes.
CsvFieldUnquoted(f) == f

CsvField(f) == IF NeedsQuotes(f) THEN CsvQuoteField(f) ELSE f

\* Writer::write_record: the fields, delimited, and the record terminator.
CsvWriteRecord(fields) ==
    as_bytes(Concat([i \in 1..Len(fields) |->
                        (IF i > 1 THEN <<COMMA>> ELSE <<>>) \o CsvField(fields[i])])
             \o <<LF>>)

\* The record write_all builds from one transaction.
CsvRowOf(tx) ==
    << to_string(tx.tx_id), TxTypeText(tx.tx_type), to_string(tx.from_user_id),
       to_string(tx.to_user_id), to_string(tx.amount), to_string(tx.timestamp),
       StatusText(tx.status), tx.description >>

IsTerm(c) == c = CR \/ c = LF

\* Inside a quoted field that opened at data[open], the quote at data[j]
\* closes the field when it ends an odd run of quotes: the pairs before it
\* are doubled quotes.
QuoteRunStart(data, open, j) ==
    Max({k \in open..(j - 1) : k = open \/ data[k] # QUOTE}) + 1

ClosesQuoted(data, open, j) ==
    /\ data[j] = QUOTE
    /\ j = Len(data) \/ data[j + 1] # QUOTE
    /\ (j - QuoteRunStart(data, open, j)) % 2 = 0

\* The bytes data[from..to] of a quoted field with every doubled quote
\* reduced to one.
Unescape(data, open, from, to) ==
    LET kept == {k \in from..to :
                    data[k] # QUOTE \/ (k - QuoteRunStart(data, open, k)) % 2 = 1}
        nth(n) == CHOOSE k \in kept : Cardinality({m \in kept : m <= k}) = n
    IN  [n \in 1..Cardinality(kept) |-> data[nth(n)]]

\* The field that starts at data[i]: its bytes and the offset of the
\* delimiter or terminator that ends it (Len(data) + 1 at the end of input).
\* After the closing quote of a quoted field the bytes up to the delimiter
\* are taken as they are.
CsvFieldAt(data, i) ==
    LET n      == Len(data)
        quoted == i <= n /\ data[i] = QUOTE
        closes == {j \in (i + 1)..n : ClosesQuoted(data, i, j)}
        close  == IF closes = {} THEN n + 1 ELSE Min(closes)
        from   == IF quoted THEN close + 1 ELSE i
        stops  == {k \in from..n : data[k] = COMMA \/ IsTerm(data[k])}
        stop   == IF stops = {} THEN n + 1 ELSE Min(stops)
    IN  [bytes |-> IF quoted
                   THEN Unescape(data, i, i + 1, close - 1) \o SubSeq(data, close + 1, stop - 1)
                   ELSE SubSeq(data, i, stop - 1),
         stop  |-> stop]

\* The fields of the record whose next field starts at data[i].
RECURSIVE CsvFieldsFrom(_, _, _)
CsvFieldsFrom(data, i, fields) ==
    LET f == CsvFieldAt(data, i)
    IN  IF f.stop <= Len(data) /\ data[f.stop] = COMMA
        THEN CsvFieldsFrom(data, f.stop + 1, Append(fields, f.bytes))
        ELSE [eof |-> FALSE, fields |-> Append(fields, f.bytes),
              next |-> IF f.stop > Len(data) THEN Len(data)
                       ELSE IF /\ data[f.stop] = CR /\ f.stop + 1 <= Len(data)
                               /\ data[f.stop + 1] = LF
                       THEN f.stop + 1 ELSE f.stop]

\* Reader::read_byte_record at offset pos: the next record, empty lines skipped.
CsvReadRecordAt(data, pos) ==
    LET starts == {i \in (pos + 1)..Len(data) : ~IsTerm(data[i])}
    IN  IF starts = {} THEN [eof |-> TRUE, fields |-> <<>>, next |-> Len(data)]
        ELSE CsvFieldsFrom(data, Min(starts), <<>>)

\* The fields of a row in the order read_all evaluates them.
CsvFields ==
    << [kind |-> "u64",    name |-> "tx_id"],
       [kind |-> "type",   name |-> "tx_type"],
       [kind |-> "i64",    name |-> "from_user_id"],
       [kind |-> "i64",    name |-> "to_user_id"],
       [kind |-> "i64",    name |-> "amount"],
       [kind |-> "i64",    name |-> "timestamp"],
       [kind |-> "status", name |-> "status"],
       [kind |-> "text",   name |-> "description"] >>

\* record[i - 1] of a row and its parse: indexing past the row panics.
CsvFieldResult(row, i) ==
    IF i > Len(row) THEN Err("Panic", "index out of bounds", <<i - 1, Len(row)>>)
    ELSE ParseField(CsvFields[i].kind, CsvFields[i].name, row[i])

\* The body of the loop of CsvFormat::read_all for one record of the reader:
\* fields are the raw fields, ncols the length of the first record.
CsvRowResult(fields, ncols) ==
    LET texts == [i \in 1..Len(fields) |-> from_utf8(fields[i])]
        row   == [i \in 1..Len(fields) |-> texts[i].val]
        bad   == {i \in 1..8 : ~CsvFieldResult(row, i).ok}
        v(i)  == CsvFieldResult(row, i).val
    IN  IF Len(fields) # ncols
        THEN Err("Parse", "found record with a different number of fields",
                 <<Len(fields), ncols>>)
        ELSE IF \E i \in 1..Len(fields) : ~texts[i].ok
        THEN Err("Parse", "invalid utf-8", <<>>)
        ELSE IF bad # {} THEN CsvFieldResult(row, Min(bad))
        ELSE Ok(Transaction(v(1), v(2), v(3), v(4), v(5), v(6), v(7), v(8)))

---------------------------------------------------------------------------
(* The inputs: record lists handed to write_all.                           *)

\* Longest record list.
MaxRecords == 2

\* The transaction of the test suites.
BaseTx == Transaction(1, "Deposit", 0, 42, 1000, 1234567890, "Success", <<116, 101, 115, 116>>)

\* Descriptions: empty, plain, non-ASCII, with the delimiter, with quotes at
\* either end and inside, with ':' and '#', with a line break, padded.
Descriptions ==
    { <<>>,
      <<102, 111, 111, 100>>,
      <<233, 8364>>,
      <<97, COMMA, 98>>,
      <<QUOTE, 97>>,
      <<97, QUOTE>>,
      <<97, QUOTE, 98>>,
      <<97, COLON, 98, HASH, 99>>,
      <<97, LF, 98>>,
      <<32, 97, 32>> }

TxSet ==
    {BaseTx,
     Transaction(2, "Transfer", 10, 20, 500, 1234567891, "Pending", <<115, 101, 99, 111, 110, 100>>),
     Transaction(3, "Withdrawal", 99, 0, 250, 1234567892, "Failure", <<116, 104, 105, 114, 100>>),
     Transaction(2147483647, "Transfer", -1, -42, -1000, -1234567890, "Failure", <<>>),
     Transaction(0, "Withdrawal", 2147483647, -2147483647, -2147483647, 0, "Pending", <<97>>)}
    \cup {[BaseTx EXCEPT !.description = d] : d \in Descriptions}

\* The three transactions of the multi-record tests.
CommonTx == {tx \in TxSet : tx.description \in {BaseTx.description, <<115, 101, 99, 111, 110, 100>>, <<116, 104, 105, 114, 100>>}}

SeqsUpTo(S, n) == UNION {[1..k -> S] : k \in 0..n}

\* Lists of at most MaxRecords transactions, at most one of them outside the
\* three of the tests.
Lists ==
    {l \in SeqsUpTo(TxSet, MaxRecords) :
        Cardinality({i \in 1..Len(l) : l[i] \notin CommonTx}) <= 1}

Formats == {"Bin", "Csv", "Txt"}

---------------------------------------------------------------------------
(* State.                                                                  *)

VARIABLES
    call,          \* the entry point under way: [fn, fmt1, fmt2]
    cap,           \* the bytes the sink of the entry point accepts (NoCap: any)
    pc,            \* where it is
    records,       \* <<L1, L2>>: the lists encoded into streams 1 and 2
    stream,        \* <<s1, s2, s3>>: the two source streams, the destination
    w,             \* write_all: records written, csv header, csv::Writer buffer
    rpos,          \* <<p1, p2>>: bytes consumed from streams 1 and 2
    ncols,         \* csv::Reader: length of the first record (0: not read)
    transactions,  \* read_all: the Vec<Transaction> built so far
    current,       \* TxtFormat::read_all: the accumulator
    decoded,       \* <<r1, r2>>: what read_all returned for streams 1 and 2
    cmp,           \* compare: map1, map2, the keys to visit, the collections
    result         \* what the entry point returned

vars == <<call, cap, pc, records, stream, w, rpos, ncols, transactions, current,
          decoded, cmp, result>>

\* A sink that never fails.
NoCap == -1

NoWriter == [i |-> 0, hdr |-> FALSE, buf |-> <<>>]

NoCompare ==
    [map1 |-> EmptyMap, map2 |-> EmptyMap, keys1 |-> {}, keys2 |-> {},
     missing_in_1 |-> <<>>, missing_in_2 |-> <<>>, differing |-> <<>>]

\* The state in which call starts on the lists l1 and l2.
Start(c, l1, l2) ==
    /\ call = c
    /\ cap = NoCap
    /\ pc = "write1"
    /\ records = <<l1, l2>>
    /\ stream = <<<<>>, <<>>, <<>>>>
    /\ w = NoWriter
    /\ rpos = <<0, 0>>
    /\ ncols = 0
    /\ transactions = <<>>
    /\ current = EmptyMap
    /\ decoded = <<NoResult, NoResult>>
    /\ cmp = NoCompare
    /\ result = NoResult

---------------------------------------------------------------------------
(* write_all.                                                              *)

WritePcs == {"write1", "write2", "convert_write"}

\* The codec, the records and the sink of the write_all under way.
WFmt == IF pc = "write1" THEN call.fmt1 ELSE call.fmt2

\* WList with convert handing the decoded list over in reverse.
WListReversed ==
    CASE pc = "write1" -> records[1]
      [] pc = "write2" -> records[2]
      [] pc = "convert_write" ->
             [i \in 1..Len(decoded[1].val) |-> decoded[1].val[Len(decoded[1].val) + 1 - i]]

WList ==
    CASE pc = "write1" -> records[1]
      [] pc = "write2" -> records[2]
      [] pc = "convert_write" -> decoded[1].val

WSink == CASE pc = "write1" -> 1 [] pc = "write2" -> 2 [] pc = "convert_write" -> 3

Writing(f) == pc \in WritePcs /\ WFmt = f

\* The w argument of the entry point is the sink that may fail: the sink of
\* write_all called on its own, the destination of convert.
SinkCap == IF call.fn = "write_all" \/ pc = "convert_write" THEN cap ELSE NoCap

\* The sink takes all of bytes.
Fits(bytes) == SinkCap = NoCap \/ Len(stream[WSink]) + Len(bytes) <= SinkCap

\* BinFormat::write_all, one record.
BinWriteRecord ==
    /\ Writing("Bin")
    /\ w.i < Len(WList)
    /\ Fits(BinEncodeRecord(WList[w.i + 1]))
    /\ stream' = [stream EXCEPT ![WSink] = @ \o BinEncodeRecord(WList[w.i + 1])]
    /\ w' = [w EXCEPT !.i = @ + 1]
    /\ UNCHANGED <<call, cap, pc, records, rpos, ncols, transactions, current, decoded,
                   cmp, result>>

\* TxtFormat::write_all, one record.
TxtWriteRecord ==
    /\ Writing("Txt")
    /\ w.i < Len(WList)
    /\ Fits(TxtEncodeRecord(w.i, WList[w.i + 1]))
    /\ stream' = [stream EXCEPT ![WSink] = @ \o TxtEncodeRecord(w.i, WList[w.i + 1])]
    /\ w' = [w EXCEPT !.i = @ + 1]
    /\ UNCHANGED <<call, cap, pc, records, rpos, ncols, transactions, current, decoded,
                   cmp, result>>

\* CsvFormat::write_all, the header record (into the writer's buffer).
CsvWriteHeader ==
    /\ Writing("Csv")
    /\ ~w.hdr
    /\ w' = [w EXCEPT !.hdr = TRUE, !.buf = @ \o CsvWriteRecord(CsvHeader)]
    /\ UNCHANGED <<call, cap, pc, records, stream, rpos, ncols, transactions, current,
                   decoded, cmp, result>>

\* CsvFormat::write_all, one record (into the writer's buffer).
CsvWriteRow ==
    /\ Writing("Csv")
    /\ w.hdr
    /\ w.i < Len(WList)
    /\ w' = [w EXCEPT !.i = @ + 1, !.buf = @ \o CsvWriteRecord(CsvRowOf(WList[w.i + 1]))]
    /\ UNCHANGED <<call, cap, pc, records, stream, rpos, ncols, transactions, current,
                   decoded, cmp, result>>

\* Where the entry point goes on when a write_all has returned Ok(()).
AfterWrite ==
    CASE pc = "write1" -> IF call.fn = "compare" THEN "write2"
                          ELSE IF call.fn = "write_all" THEN "done" ELSE "read1"
      [] pc = "write2" -> "read1"
      [] pc = "convert_write" -> "done"

\* write_all returns Ok(()): the loop is over; the csv writer is flushed.
WriteAllReturn ==
    /\ pc \in WritePcs
    /\ w.i = Len(WList)
    /\ WFmt = "Csv" => w.hdr
    /\ Fits(w.buf)
    /\ stream' = [stream EXCEPT ![WSink] = @ \o w.buf]
    /\ w' = NoWriter
    /\ pc' = AfterWrite
    /\ result' = IF AfterWrite = "done" THEN Ok(<<>>) ELSE result
    /\ UNCHANGED <<call, cap, records, rpos, ncols, transactions, current, decoded, cmp>>

\* What write_all hands to the sink next: the next record of the binary and
\* the text codec, which write straight to the sink; the buffer of the
\* csv::Writer when it is flushed after the last record.
Pending ==
    CASE WFmt = "Bin" -> IF w.i < Len(WList) THEN BinEncodeRecord(WList[w.i + 1]) ELSE <<>>
      [] WFmt = "Txt" -> IF w.i < Len(WList) THEN TxtEncodeRecord(w.i, WList[w.i + 1]) ELSE <<>>
      [] WFmt = "Csv" -> IF w.hdr /\ w.i = Len(WList) THEN w.buf ELSE <<>>

\* The sink is full before it has taken all that is pending: it keeps the
\* bytes it had room for, the failing write returns an io::Error and
\* write_all, and the entry point with it, returns Err(Io).
SinkFail ==
    /\ pc \in WritePcs
    /\ ~Fits(Pending)
    /\ stream' = [stream EXCEPT ![WSink] =
                      @ \o SubSeq(Pending, 1, SinkCap - Len(stream[WSink]))]
    /\ w' = NoWriter
    /\ pc' = "done"
    /\ result' = Err("Io", "WriteZero", <<>>)
    /\ UNCHANGED <<call, cap, records, rpos, ncols, transactions, current, decoded, cmp>>

---------------------------------------------------------------------------
(* read_all.                                                               *)

\* The codec and the source of the read_all under way.
RFmt == IF pc = "read1" THEN call.fmt1 ELSE call.fmt2

RSrc == IF pc = "read1" THEN 1 ELSE 2

Reading(f) == pc \in {"read1", "read2"} /\ RFmt = f

\* AfterRead with compare reading both sides before it looks at an error.
AfterReadBothSides(res) ==
    CASE call.fn = "read_all" -> "done"
      [] call.fn = "convert"  -> IF res.ok THEN "convert_write" ELSE "done"
      [] call.fn = "compare"  -> IF pc = "read1" THEN "read2"
                                 ELSE IF ~res.ok \/ ~decoded[1].ok THEN "done" ELSE "index"

\* Where the entry point goes on when read_all has returned res: convert and
\* compare propagate an error with `?`.
AfterRead(res) ==
    CASE call.fn = "read_all" -> "done"
      [] call.fn = "convert"  -> IF res.ok THEN "convert_write" ELSE "done"
      [] call.fn = "compare"  -> IF ~res.ok THEN "done"
                                 ELSE IF pc = "read1" THEN "read2" ELSE "index"

\* ReadReturn with convert dropping the error of read_all.
ReadReturnErrorDropped(res) ==
    /\ decoded' = [decoded EXCEPT ![RSrc] = res]
    /\ pc' = AfterRead(res)
    /\ result' = IF AfterRead(res) # "done" THEN result
                 ELSE IF call.fn = "convert" THEN Ok(<<>>) ELSE res
    /\ transactions' = <<>>
    /\ current' = EmptyMap
    /\ ncols' = 0
    /\ UNCHANGED <<call, cap, records, stream, w, cmp>>

\* read_all returns res.
ReadReturn(res) ==
    /\ decoded' = [decoded EXCEPT ![RSrc] = res]
    /\ pc' = AfterRead(res)
    /\ result' = IF AfterRead(res) = "done" THEN res ELSE result
    /\ transactions' = <<>>
    /\ current' = EmptyMap
    /\ ncols' = 0
    /\ UNCHANGED <<call, cap, records, stream, w, cmp>>

\* read_all pushes tx and goes on.
ReadPush(tx) ==
    /\ transactions' = Append(transactions, tx)
    /\ UNCHANGED <<call, cap, pc, records, stream, w, decoded, cmp, result>>

\* BinFormat::read_all, one iteration of the loop.
BinReadRecord ==
    /\ Reading("Bin")
    /\ LET o == BinReadRecordAt(stream[RSrc], rpos[RSrc])
       IN  /\ rpos' = [rpos EXCEPT ![RSrc] = o.pos]
           /\ IF o.tag = "tx"
              THEN ReadPush(o.tx) /\ UNCHANGED <<ncols, current>>
              ELSE ReadReturn(IF o.tag = "break" THEN Ok(transactions) ELSE o.res)

\* TxtFormat::read_all, one line of the reader.
TxtReadLine ==
    /\ Reading("Txt")
    /\ rpos[RSrc] < Len(stream[RSrc])
    /\ LET line   == NextLine(stream[RSrc], rpos[RSrc])
           effect == TxtLineEffect(current, trim(line.text.val))
           tx     == parse_map(current)
       IN  /\ rpos' = [rpos EXCEPT ![RSrc] = line.next]
           /\ IF ~line.text.ok
              THEN ReadReturn(Err("Io", "InvalidData", <<>>))
              ELSE IF effect.flush /\ ~tx.ok
              THEN ReadReturn(tx)
              ELSE /\ current' = effect.current
                   /\ ncols' = ncols
                   /\ IF effect.flush THEN ReadPush(tx.val)
                      ELSE UNCHANGED <<call, cap, pc, records, stream, w, decoded, cmp,
                                       result, transactions>>

\* TxtFormat::read_all at the end of the stream: the pending record, if any.
TxtReadEof ==
    /\ Reading("Txt")
    /\ rpos[RSrc] = Len(stream[RSrc])
    /\ LET tx == parse_map(current)
       IN  ReadReturn(IF current = EmptyMap THEN Ok(transactions)
                      ELSE IF tx.ok THEN Ok(Append(transactions, tx.val))
                      ELSE tx)
    /\ UNCHANGED rpos

\* CsvReadHeader keeping a first record that parses as a transaction.
CsvReadHeaderAsData ==
    /\ Reading("Csv")
    /\ ncols = 0
    /\ LET rec == CsvReadRecordAt(stream[RSrc], rpos[RSrc])
           row == CsvRowResult(rec.fields, Len(rec.fields))
       IN  /\ rpos' = [rpos EXCEPT ![RSrc] = rec.next]
           /\ IF rec.eof
              THEN ReadReturn(Ok(transactions))
              ELSE /\ ncols' = Len(rec.fields)
                   /\ transactions' = IF row.ok THEN Append(transactions, row.val)
                                      ELSE transactions
                   /\ UNCHANGED <<call, cap, pc, records, stream, w, decoded, cmp, result,
                                  current>>

\* csv::Reader reads the first record as the header.
CsvReadHeader ==
    /\ Reading("Csv")
    /\ ncols = 0
    /\ LET rec == CsvReadRecordAt(stream[RSrc], rpos[RSrc])
       IN  /\ rpos' = [rpos EXCEPT ![RSrc] = rec.next]
           /\ IF rec.eof
              THEN ReadReturn(Ok(transactions))
              ELSE /\ ncols' = Len(rec.fields)
                   /\ UNCHANGED <<call, cap, pc, records, stream, w, decoded, cmp, result,
                                  transactions, current>>

\* CsvFormat::read_all, one record of rdr.records().
CsvReadRow ==
    /\ Reading("Csv")
    /\ ncols > 0
    /\ LET rec == CsvReadRecordAt(stream[RSrc], rpos[RSrc])
           row == CsvRowResult(rec.fields, ncols)
       IN  /\ rpos' = [rpos EXCEPT ![RSrc] = rec.next]
           /\ IF rec.eof THEN ReadReturn(Ok(transactions))
              ELSE IF ~row.ok THEN ReadReturn(row)
              ELSE ReadPush(row.val) /\ UNCHANGED <<ncols, current>>

---------------------------------------------------------------------------
(* compare, after both sides are decoded.                                  *)

\* transactions.into_iter().map(|t| (t.tx_id, t)).collect(): each record is
\* inserted under its id in source order, replacing an earlier one.
RECURSIVE CollectFrom(_, _, _)
CollectFrom(list, i, m) ==
    IF i > Len(list) THEN m
    ELSE CollectFrom(list, i + 1, MapInsert(m, list[i].tx_id, list[i]))

\* CollectMap keeping the first record of an id instead of the last.
CollectMapFirstWins(list) ==
    [id \in {list[i].tx_id : i \in 1..Len(list)} |->
        list[Min({i \in 1..Len(list) : list[i].tx_id = id})]]

CollectMap(list) == CollectFrom(list, 1, EmptyMap)

\* compare builds map1 and map2.
CompareIndex ==
    /\ pc = "index"
    /\ cmp' = [cmp EXCEPT !.map1 = CollectMap(decoded[1].val),
                          !.map2 = CollectMap(decoded[2].val),
                          !.keys1 = DOMAIN CollectMap(decoded[1].val),
                          !.keys2 = DOMAIN CollectMap(decoded[2].val)]
    /\ pc' = "loop"
    /\ UNCHANGED <<call, cap, records, stream, w, rpos, ncols, transactions, current,
                   decoded, result>>

\* Visit1 with the two records of a differing entry in the wrong order.
Visit1Swapped(c, id) ==
    IF id \notin DOMAIN c.map2
    THEN [c EXCEPT !.missing_in_2 = Append(@, id)]
    ELSE IF c.map1[id] # c.map2[id]
    THEN [c EXCEPT !.differing = Append(@, <<id, c.map2[id], c.map1[id]>>)]
    ELSE c

\* The body of `for (id, tx1) in &map1` for the entry id.
Visit1(c, id) ==
    IF id \notin DOMAIN c.map2
    THEN [c EXCEPT !.missing_in_2 = Append(@, id)]
    ELSE IF c.map1[id] # c.map2[id]
    THEN [c EXCEPT !.differing = Append(@, <<id, c.map1[id], c.map2[id]>>)]
    ELSE c

\* One iteration of the first loop; the map yields its entries in any order.
CompareVisit1 ==
    /\ pc = "loop"
    /\ \E id \in cmp.keys1 :
           cmp' = [Visit1(cmp, id) EXCEPT !.keys1 = @ \ {id}]
    /\ UNCHANGED <<call, cap, pc, records, stream, w, rpos, ncols, transactions, current,
                   decoded, result>>

\* Visit2 pushing the id to the collection of the first loop.
Visit2WrongSide(c, id) ==
    IF id \notin DOMAIN c.map1 THEN [c EXCEPT !.missing_in_2 = Append(@, id)] ELSE c

\* The body of `for id in map2.keys()` for the key id.
Visit2(c, id) ==
    IF id \notin DOMAIN c.map1 THEN [c EXCEPT !.missing_in_1 = Append(@, id)] ELSE c

\* One iteration of the second loop.
CompareVisit2 ==
    /\ pc = "loop"
    /\ cmp.keys1 = {}
    /\ \E id \in cmp.keys2 :
           cmp' = [Visit2(cmp, id) EXCEPT !.keys2 = @ \ {id}]
    /\ UNCHANGED <<call, cap, pc, records, stream, w, rpos, ncols, transactions, current,
                   decoded, result>>

Identical == [tag |-> "Identical"]

Mismatch(m1, m2, d) ==
    [tag |-> "Mismatch", missing_in_1 |-> m1, missing_in_2 |-> m2, differing |-> d]

\* CompareOutcome that looks at the two missing collections only.
CompareOutcomeMissingOnly(m1, m2, d) ==
    IF m1 = <<>> /\ m2 = <<>> THEN Identical ELSE Mismatch(m1, m2, d)

\* The CompareResult built from the three collections.
CompareOutcome(m1, m2, d) ==
    IF m1 = <<>> /\ m2 = <<>> /\ d = <<>> THEN Identical ELSE Mismatch(m1, m2, d)

\* compare returns.
CompareReturn ==
    /\ pc = "loop"
    /\ cmp.keys1 = {}
    /\ cmp.keys2 = {}
    /\ result' = Ok(CompareOutcome(cmp.missing_in_1, cmp.missing_in_2, cmp.differing))
    /\ pc' = "done"
    /\ UNCHANGED <<call, cap, records, stream, w, rpos, ncols, transactions, current,
                   decoded, cmp>>

---------------------------------------------------------------------------
(* Encode then decode with one codec, as the round-trip tests do.          *)

Init == \E f \in Formats, l \in Lists :
            Start([fn |-> "read_all", fmt1 |-> f, fmt2 |-> f], l, <<>>)

Next ==
    \/ BinWriteRecord
    \/ TxtWriteRecord
    \/ CsvWriteHeader
    \/ CsvWriteRow
    \/ WriteAllReturn
    \/ BinReadRecord
    \/ TxtReadLine
    \/ TxtReadEof
    \/ CsvReadHeader
    \/ CsvReadRow

Spec == Init /\ [][Next]_vars

---------------------------------------------------------------------------
(* convert::<From, To> on the stream From::write_all made of a list.       *)

InitConvert == \E f \in Formats, t \in Formats, l \in Lists :
                   Start([fn |-> "convert", fmt1 |-> f, fmt2 |-> t], l, <<>>)

SpecConvert == InitConvert /\ [][Next]_vars

---------------------------------------------------------------------------
(* compare::<F1, F2> on the streams made of two lists.                     *)

\* Longest list of a side in the reconciliation runs.
MaxCmpRecords == 2

\* Two records with the id 1 that differ in the amount only, one with id 2.
CmpTxSet ==
    {BaseTx, [BaseTx EXCEPT !.amount = 9999],
     Transaction(2, "Transfer", 10, 20, 500, 1234567891, "Pending", <<115, 101, 99, 111, 110, 100>>)}

CmpLists == SeqsUpTo(CmpTxSet, MaxCmpRecords)

\* The codec pairs of the reconciliation runs.
CmpFormats == {<<"Csv", "Csv">>, <<"Bin", "Csv">>}

\* One list on both sides, under every pair of codecs; or two lists.
InitCompare ==
    \/ \E f \in Formats, g \in Formats, l \in SeqsUpTo(TxSet, 1) :
           Start([fn |-> "compare", fmt1 |-> f, fmt2 |-> g], l, l)
    \/ \E fg \in CmpFormats, l1 \in CmpLists, l2 \in CmpLists :
           Start([fn |-> "compare", fmt1 |-> fg[1], fmt2 |-> fg[2]], l1, l2)

NextCompare ==
    \/ Next
    \/ CompareIndex
    \/ CompareVisit1
    \/ CompareVisit2
    \/ CompareReturn

SpecCompare == InitCompare /\ [][NextCompare]_vars

---------------------------------------------------------------------------
(* BinFormat::read_all on streams that no encoder made: an encoded list    *)
(* cut at any length, or with four foreign bytes at a record boundary.     *)

\* What BinFormat::write_all writes for a list.
BinWriteAll(list) == Concat([i \in 1..Len(list) |-> BinEncodeRecord(list[i])])

BinTxSet ==
    {BaseTx, Transaction(2147483647, "Transfer", -1, -42, -1000, -1234567890, "Failure", <<>>)}

BinLists == SeqsUpTo(BinTxSet, MaxRecords)

\* Four bytes that are not the magic: zeros, the magic with its last byte
\* off by one, the magic reversed.
NotMagic == {<<0, 0, 0, 0>>, <<89, 80, 66, 79>>, <<78, 66, 80, 89>>}

\* The offset at which record k + 1 of the encoded list starts.
Boundary(list, k) == Len(BinWriteAll(SubSeq(list, 1, k)))

Truncate(data, n) == SubSeq(data, 1, n)

\* The encoded list with the bytes g between records k and k + 1.
WithGarbage(list, k, g) ==
    BinWriteAll(SubSeq(list, 1, k)) \o g \o BinWriteAll(SubSeq(list, k + 1, Len(list)))

\* The state in which read_all of codec f starts on the stream data.
StartRead(f, l, data) ==
    /\ call = [fn |-> "read_all", fmt1 |-> f, fmt2 |-> f]
    /\ cap = NoCap
    /\ pc = "read1"
    /\ records = <<l, <<>>>>
    /\ stream = <<data, <<>>, <<>>>>
    /\ w = NoWriter
    /\ rpos = <<0, 0>>
    /\ ncols = 0
    /\ transactions = <<>>
    /\ current = EmptyMap
    /\ decoded = <<NoResult, NoResult>>
    /\ cmp = NoCompare
    /\ result = NoResult

InitBinRead ==
    \E l \in BinLists :
        \/ \E n \in 0..Len(BinWriteAll(l)) : StartRead("Bin", l, Truncate(BinWriteAll(l), n))
        \/ \E k \in 0..Len(l), g \in NotMagic : StartRead("Bin", l, WithGarbage(l, k, g))

NextBinRead == BinReadRecord

SpecBinRead == InitBinRead /\ [][NextBinRead]_vars

---------------------------------------------------------------------------
(* Properties.                                                             *)

Range(seq) == {seq[i] : i \in 1..Len(seq)}

NoDuplicates(seq) == Cardinality(Range(seq)) = Len(seq)

Done(f) == pc = "done" /\ call.fmt1 = f

\* C1: the binary codec round-trips: read_all of the bytes write_all made of
\* a list returns Ok of that list, field for field and in order.
C1_BinRoundTrip == Done("Bin") => result = Ok(records[1])

\* A two-record list with negative values and an empty description has been
\* through the binary codec.
C1_Witness ==
    /\ Done("Bin")
    /\ result = Ok(records[1])
    /\ Len(records[1]) = 2
    /\ \E i \in 1..2 : records[1][i].amount < 0 /\ records[1][i].description = <<>>

\* C2: the block-text codec round-trips every list, whatever the
\* descriptions hold.
C2_TxtRoundTrip == Done("Txt") => result = Ok(records[1])

\* The CSV text of the transaction of the tests: the header row, then its row.
ExampleCsv ==
    CsvWriteRecord(CsvHeader)
    \o <<49, 44, 68, 69, 80, 79, 83, 73, 84, 44, 48, 44, 52, 50, 44, 49, 48, 48, 48, 44, 49, 50, 51, 52, 53, 54, 55, 56, 57, 48, 44, 83, 85, 67, 67, 69, 83, 83, 44, 116, 101, 115, 116, 10>>

\* C3: the CSV codec round-trips every list, descriptions with the delimiter
\* or a quote included, and the transaction of the tests is written as the
\* header row followed by 1,DEPOSIT,0,42,1000,1234567890,SUCCESS,test.
C3_CsvRoundTrip ==
    /\ Done("Csv") => result = Ok(records[1])
    /\ (call.fmt1 = "Csv" /\ pc \in {"read1", "done"} /\ records[1] = <<BaseTx>>)
           => stream[1] = ExampleCsv

\* A list with a description holding the delimiter or a quote has been
\* through the CSV codec.
C3_Witness ==
    /\ Done("Csv")
    /\ result = Ok(records[1])
    /\ \E i \in 1..Len(records[1]) :
           \E j \in 1..Len(records[1][i].description) :
               records[1][i].description[j] \in {COMMA, QUOTE}

Compared == pc = "done" /\ call.fn = "compare" /\ result.ok

\* C4: one list written by any codec on each side compares as Identical.
C4_CrossFormatIdentical ==
    (pc = "done" /\ call.fn = "compare" /\ records[1] = records[2])
        => result = Ok(Identical)

\* The ids of a sequence of entries of differing.
DifferingIds(d) == {d[i][1] : i \in 1..Len(d)}

\* C5: in a Mismatch, missing_in_1 holds the ids of the second mapping that
\* the first lacks, missing_in_2 the ids of the first that the second lacks,
\* differing the (id, first record, second record) of the ids of both whose
\* records differ; no id is twice in a collection, nor in two collections.
C5_MismatchSets ==
    (Compared /\ result.val.tag = "Mismatch") =>
        LET r  == result.val
            m1 == cmp.map1
            m2 == cmp.map2
        IN  /\ Range(r.missing_in_1) = DOMAIN m2 \ DOMAIN m1
            /\ Range(r.missing_in_2) = DOMAIN m1 \ DOMAIN m2
            /\ Range(r.differing) =
                   {<<id, m1[id], m2[id]>> :
                        id \in {k \in DOMAIN m1 \cap DOMAIN m2 : m1[k] # m2[k]}}
            /\ NoDuplicates(r.missing_in_1)
            /\ NoDuplicates(r.missing_in_2)
            /\ NoDuplicates(r.differing)
            /\ Cardinality(DifferingIds(r.differing)) = Len(r.differing)
            /\ Range(r.missing_in_1) \cap Range(r.missing_in_2) = {}
            /\ Range(r.missing_in_1) \cap DifferingIds(r.differing) = {}
            /\ Range(r.missing_in_2) \cap DifferingIds(r.differing) = {}

\* compare returned a Mismatch with an id on one side only and an id whose
\* records differ.
C5_Witness ==
    /\ Compared
    /\ result.val.tag = "Mismatch"
    /\ result.val.missing_in_2 # <<>>
    /\ result.val.differing # <<>>
    /\ result.val.differing[1][2] # result.val.differing[1][3]

\* C6: compare returns Identical exactly when the three collections are all
\* empty, which is exactly when the two mappings are equal.
C6_IdenticalIff ==
    Compared =>
        /\ (result.val = Identical) <=>
               (cmp.missing_in_1 = <<>> /\ cmp.missing_in_2 = <<>> /\ cmp.differing = <<>>)
        /\ (result.val = Identical) <=> (cmp.map1 = cmp.map2)

\* The two sides hold the same ids and differ in the amount of one record:
\* compare returned a Mismatch.
C6_Witness ==
    /\ Compared
    /\ result.val.tag = "Mismatch"
    /\ DOMAIN cmp.map1 = DOMAIN cmp.map2
    /\ \E id \in DOMAIN cmp.map1 :
           /\ cmp.map1[id].amount # cmp.map2[id].amount
           /\ [cmp.map1[id] EXCEPT !.amount = 0] = [cmp.map2[id] EXCEPT !.amount = 0]

\* The records of a list that no later record of the same id follows.
LastRecords(list) ==
    {list[i] : i \in {k \in 1..Len(list) :
                         \A j \in (k + 1)..Len(list) : list[j].tx_id # list[k].tx_id}}

IdsOf(S) == {tx.tx_id : tx \in S}

\* C7: an id that occurs more than once on a side is no error, and compare
\* returns what it would return had every earlier record of that id been
\* removed from the side.
C7_LastWriteWins ==
    (pc = "done" /\ call.fn = "compare" /\ decoded[1].ok /\ decoded[2].ok) =>
        LET s1 == LastRecords(decoded[1].val)
            s2 == LastRecords(decoded[2].val)
            d  == {<<a.tx_id, a, b>> : a \in s1, b \in s2}
        IN  /\ result.ok
            /\ Range(cmp.missing_in_1) = IdsOf(s2) \ IdsOf(s1)
            /\ Range(cmp.missing_in_2) = IdsOf(s1) \ IdsOf(s2)
            /\ Range(cmp.differing) = {t \in d : t[2].tx_id = t[3].tx_id /\ t[2] # t[3]}
            /\ (result.val = Identical) <=> (s1 = s2)

\* A side held two different records of one id, the later one equal to the
\* other side's: compare returned Identical.
C7_Witness ==
    /\ Compared
    /\ result.val = Identical
    /\ Len(decoded[1].val) = 2
    /\ decoded[1].val[1].tx_id = decoded[1].val[2].tx_id
    /\ decoded[1].val[1] # decoded[1].val[2]

\* What write_all of codec f writes for a list.
WriteAll(f, list) ==
    CASE f = "Bin" -> BinWriteAll(list)
      [] f = "Txt" -> Concat([i \in 1..Len(list) |-> TxtEncodeRecord(i - 1, list[i])])
      [] f = "Csv" -> CsvWriteRecord(CsvHeader)
                      \o Concat([i \in 1..Len(list) |-> CsvWriteRecord(CsvRowOf(list[i]))])

\* C8: when From decodes the source to Ok(L), convert returns Ok(()) and the
\* destination holds exactly what To::write_all writes for L.
C8_ConvertTranscodes ==
    (pc = "done" /\ call.fn = "convert" /\ decoded[1].ok) =>
        /\ result = Ok(<<>>)
        /\ stream[3] = WriteAll(call.fmt2, decoded[1].val)

\* convert has transcoded two different records from one codec to another.
C8_Witness ==
    /\ pc = "done"
    /\ call.fn = "convert"
    /\ call.fmt1 # call.fmt2
    /\ result = Ok(<<>>)
    /\ Len(decoded[1].val) = 2
    /\ decoded[1].val[1] # decoded[1].val[2]
    /\ stream[3] # <<>>

\* C9: four bytes other than 59 50 42 4E at a record boundary make read_all
\* return InvalidBinary "invalid magic" at once, whatever follows them: no
\* search for a later magic, no transactions.
C9_MagicRejected ==
    (pc = "done" /\ call.fn = "read_all") =>
        \A k \in 0..Len(records[1]), g \in NotMagic :
            stream[1] = WithGarbage(records[1], k, g) =>
                /\ result = Err("InvalidBinary", "invalid magic", g)
                /\ rpos[1] = Boundary(records[1], k) + 4

\* read_all met foreign bytes after one well-formed record and before
\* another, and returned the error.
C9_Witness ==
    /\ pc = "done"
    /\ Len(records[1]) = 2
    /\ stream[1] = WithGarbage(records[1], 1, <<0, 0, 0, 0>>)
    /\ rpos[1] < Len(stream[1])
    /\ result = Err("InvalidBinary", "invalid magic", <<0, 0, 0, 0>>)

\* C10: a stream that ends at a record boundary reads as Ok of the records
\* before it; a stream that ends one to three bytes into a magic reads as
\* an Io error.
C10_EofClassification ==
    (pc = "done" /\ call.fn = "read_all") =>
        \A k \in 0..Len(records[1]) :
            /\ stream[1] = Truncate(BinWriteAll(records[1]), Boundary(records[1], k))
                   => result = Ok(SubSeq(records[1], 1, k))
            /\ \A j \in 1..3 :
                   (/\ k < Len(records[1])
                    /\ stream[1] = Truncate(BinWriteAll(records[1]), Boundary(records[1], k) + j))
                       => (~result.ok /\ result.err.kind = "Io")

---------------------------------------------------------------------------
(* read_all on malformed streams: an encoded list with one record damaged. *)

\* Offsets of fields in a binary record, counted from its magic.
TX_TYPE_OFFSET == 16
STATUS_OFFSET == 49
DESC_LEN_OFFSET == 50

\* data with the bytes at offset off overwritten.
SetBytes(data, off, bytes) ==
    [i \in 1..Len(data) |->
        IF i > off /\ i <= off + Len(bytes) THEN bytes[i - off] ELSE data[i]]

\* The encoded list with the bytes at offset off of record k overwritten.
BinDamaged(list, k, off, bytes) ==
    SetBytes(BinWriteAll(list), Boundary(list, k - 1) + off, bytes)

\* Byte codes that are no kind and no status.
BadCodes == {3, 4, 255}

\* A transaction whose description is n bytes long.
LongTx(n) == [BaseTx EXCEPT !.description = [i \in 1..n |-> 97]]

\* Description lengths around the cap.
LongLengths == {MAX_DESC_LEN - 1, MAX_DESC_LEN, MAX_DESC_LEN + 1, 2 * MAX_DESC_LEN}

\* A record with a long description, whole or cut right after desc_len.
BinLongCases ==
    UNION {{[fmt |-> "Bin", list |-> <<LongTx(n)>>, data |-> d] :
               d \in {BinEncodeRecord(LongTx(n)),
                      Truncate(BinEncodeRecord(LongTx(n)), DESC_LEN_OFFSET + 4)}} :
           n \in LongLengths}
    \cup {[fmt |-> "Bin", list |-> <<BaseTx>>,
           data |-> BinDamaged(<<BaseTx>>, 1, DESC_LEN_OFFSET, to_be_bytes(MAX_DESC_LEN + 1, 4))]}

\* Lists in which a record is damaged: there are records before it and
\* after it.
DamagedLists ==
    (SeqsUpTo(BinTxSet, MaxRecords) \ {<<>>})
    \cup {<<BaseTx, Transaction(2, "Transfer", 10, 20, 500, 1234567891, "Pending", <<>>), BaseTx>>}

\* A record of the list with a foreign kind or status byte.
BinEnumCases ==
    UNION {{[fmt |-> "Bin", list |-> l, data |-> BinDamaged(l, k, off, <<b>>)] :
               k \in 1..Len(l), off \in {TX_TYPE_OFFSET, STATUS_OFFSET}, b \in BadCodes} :
           l \in DamagedLists}

\* The offset of the n-th line feed of data (0 for n = 0).
NthLF(data, n) ==
    LET lfs == {i \in 1..Len(data) : data[i] = LF}
    IN  IF n = 0 THEN 0
        ELSE CHOOSE e \in lfs : Cardinality({x \in lfs : x <= e}) = n

\* data with its n-th line replaced by the bytes line; with it removed.
ReplaceLine(data, n, line) ==
    SubSeq(data, 1, NthLF(data, n - 1)) \o line \o SubSeq(data, NthLF(data, n) + 1, Len(data))

DropLine(data, n) == ReplaceLine(data, n, <<>>)

\* The blocks TxtFormat::write_all writes for a list, with block in the
\* place of the block of record k.
TxtDamaged(list, k, block) ==
    Concat([i \in 1..Len(list) |->
               IF i = k THEN block ELSE TxtEncodeRecord(i - 1, list[i])])

\* Tokens that are no kind, tokens that are no status: another case, another
\* word, a token of the other enumeration, nothing.
BadTypeTokens == {<<100, 101, 112, 111, 115, 105, 116>>, <<84, 114, 97, 110, 115, 102, 101, 114>>, <<85, 78, 75, 78, 79, 87, 78>>, <<83, 85, 67, 67, 69, 83, 83>>, <<>>}

BadStatusTokens == {<<115, 117, 99, 99, 101, 115, 115>>, <<80, 101, 110, 100, 105, 110, 103>>, <<85, 78, 75, 78, 79, 87, 78>>, <<68, 69, 80, 79, 83, 73, 84>>, <<>>}

\* Texts that are no decimal integer.
BadNumbers == {<<49, 50, 120>>, <<49, 46, 53>>, <<97, 98, 99>>, <<>>}

\* The values that do not parse as field j of a text record.
BadValues(j) ==
    CASE TxtFields[j].kind = "type" -> BadTypeTokens
      [] TxtFields[j].kind = "status" -> BadStatusTokens
      [] TxtFields[j].kind = "text" -> {}
      [] OTHER -> BadNumbers

\* The block of record k of the list with the line of field j replaced by
\* one that holds the value v.
TxtBadValue(list, k, j, v) ==
    TxtDamaged(list, k,
               ReplaceLine(TxtEncodeRecord(k - 1, list[k]), j + 1, TxtLine(TxtFields[j].key, v)))

\* The block of record k of the list without the line of field j.
TxtMissing(list, k, j) ==
    TxtDamaged(list, k, DropLine(TxtEncodeRecord(k - 1, list[k]), j + 1))

TxtBadValueCases ==
    UNION {UNION {{[fmt |-> "Txt", list |-> l, data |-> TxtBadValue(l, k, j, v)] :
                      v \in BadValues(j)} :
                  k \in 1..Len(l), j \in 1..8} :
           l \in DamagedLists}

TxtMissingCases ==
    UNION {{[fmt |-> "Txt", list |-> l, data |-> TxtMissing(l, k, j)] :
               k \in 1..Len(l), j \in 1..8} :
           l \in DamagedLists}

\* What csv::Writer writes for a sequence of rows.
CsvRows(rows) == Concat([i \in 1..Len(rows) |-> CsvWriteRecord(rows[i])])

\* The rows CsvFormat::write_all writes for a list, the header excluded.
CsvRowsOf(list) == [i \in 1..Len(list) |-> CsvRowOf(list[i])]

\* The header and the rows of the list, with row in the place of row k.
CsvDamaged(list, k, row) ==
    CsvRows(<<CsvHeader>> \o [i \in 1..Len(list) |-> IF i = k THEN row ELSE CsvRowOf(list[i])])

CsvBadValue(list, k, j, v) == CsvDamaged(list, k, [CsvRowOf(list[k]) EXCEPT ![j] = v])

CsvBadValueCases ==
    UNION {UNION {{[fmt |-> "Csv", list |-> l, data |-> CsvBadValue(l, k, j, v)] :
                      v \in BadValues(j)} :
                  k \in 1..Len(l), j \in 1..8} :
           l \in DamagedLists}

\* The first n fields of a row, padded with fields "x" when it is shorter.
Columns(row, n) == [i \in 1..n |-> IF i <= Len(row) THEN row[i] ELSE <<120>>]

\* Column counts of a table.
MaxColumns == 10

\* Row k of the list cut or padded to n columns under the header of 8.
CsvBadRow(list, k, n) == CsvDamaged(list, k, Columns(CsvRowOf(list[k]), n))

CsvBadRowCases ==
    UNION {{[fmt |-> "Csv", list |-> l, data |-> CsvBadRow(l, k, n)] :
               k \in 1..Len(l), n \in (1..MaxColumns) \ {8}} :
           l \in DamagedLists}

\* The table of the list with the header and every row cut or padded to n
\* columns.
CsvTable(list, n) ==
    CsvRows([i \in 1..(Len(list) + 1) |->
                Columns(IF i = 1 THEN CsvHeader ELSE CsvRowOf(list[i - 1]), n)])

CsvTableCases ==
    {[fmt |-> "Csv", list |-> l, data |-> CsvTable(l, n)] :
        l \in SeqsUpTo(BinTxSet, MaxRecords), n \in 1..MaxColumns}

\* The rows of the list with no header row before them.
CsvHeadlessCases ==
    {[fmt |-> "Csv", list |-> l, data |-> CsvRows(CsvRowsOf(l))] :
        l \in SeqsUpTo(TxSet, MaxRecords) \cap Lists}

MalformedCases ==
    BinLongCases \cup BinEnumCases \cup TxtBadValueCases \cup TxtMissingCases
    \cup CsvBadValueCases \cup CsvBadRowCases \cup CsvTableCases \cup CsvHeadlessCases

InitMalformed == \E c \in MalformedCases : StartRead(c.fmt, c.list, c.data)

NextMalformed ==
    \/ BinReadRecord
    \/ TxtReadLine
    \/ TxtReadEof
    \/ CsvReadHeader
    \/ CsvReadRow

SpecMalformed == InitMalformed /\ [][NextMalformed]_vars

---------------------------------------------------------------------------
(* Properties of read_all on malformed streams.                            *)

ReadDone(f) == pc = "done" /\ call.fn = "read_all" /\ call.fmt1 = f

TooLong(n) ==
    Err("InvalidBinary", "description length exceeds maximum allowed", <<n, MAX_DESC_LEN>>)

\* C11: a binary record whose desc_len is above 4096 makes read_all return
\* InvalidBinary naming the length, with no byte of the description read
\* (the error is the same when none follows); a record whose desc_len is
\* 4096, followed by 4096 bytes of text, is accepted.
C11_DescLenCap ==
    (ReadDone("Bin") /\ Len(records[1]) = 1) =>
        LET tx    == records[1][1]
            n     == Len(tx.description)
            whole == BinEncodeRecord(tx)
            cut   == Truncate(whole, DESC_LEN_OFFSET + 4)
            over  == BinDamaged(<<tx>>, 1, DESC_LEN_OFFSET, to_be_bytes(MAX_DESC_LEN + 1, 4))
        IN  /\ (n > MAX_DESC_LEN /\ stream[1] \in {whole, cut})
                   => (result = TooLong(n) /\ rpos[1] = DESC_LEN_OFFSET + 4)
            /\ (n <= MAX_DESC_LEN /\ stream[1] = over)
                   => (result = TooLong(MAX_DESC_LEN + 1) /\ rpos[1] = DESC_LEN_OFFSET + 4)
            /\ (n = MAX_DESC_LEN /\ stream[1] = whole) => result = Ok(records[1])

\* read_all has rejected a record that declares 4097 bytes of description
\* and ends right after the declaration.
C11_Witness ==
    /\ ReadDone("Bin")
    /\ records[1] = <<LongTx(MAX_DESC_LEN + 1)>>
    /\ Len(stream[1]) = DESC_LEN_OFFSET + 4
    /\ result = TooLong(MAX_DESC_LEN + 1)

\* The error of the binary codec for a foreign byte at offset off.
UnknownByte(off, b) ==
    Err("InvalidBinary",
        IF off = TX_TYPE_OFFSET THEN "unknown tx_type byte" ELSE "unknown status byte",
        <<b>>)

\* The error of the text codecs for a foreign token in field j.
UnknownToken(j, v) ==
    Err("Parse", IF TxtFields[j].kind = "type" THEN "unknown tx_type" ELSE "unknown status", v)

EnumFields == {j \in 1..8 : TxtFields[j].kind \in {"type", "status"}}

\* C12: kinds and statuses are closed in every codec. The byte codes 0, 1, 2
\* and the tokens map one-to-one to the variants, both ways; a record with
\* any other byte makes BinFormat::read_all return InvalidBinary naming the
\* byte; a record with any other token, the lower-case ones included, makes
\* TxtFormat::read_all and CsvFormat::read_all return Parse naming the token.
C12_EnumsClosed ==
    /\ \A t \in TxTypes :
           /\ TxTypeByte(t) \in {0, 1, 2}
           /\ TxTypeOfByte(TxTypeByte(t)) = t
           /\ parse_tx_type(TxTypeText(t)) = Ok(t)
    /\ \A s \in Statuses :
           /\ StatusByte(s) \in {0, 1, 2}
           /\ StatusOfByte(StatusByte(s)) = s
           /\ parse_status(StatusText(s)) = Ok(s)
    /\ \A b \in {0, 1, 2} :
           TxTypeByte(TxTypeOfByte(b)) = b /\ StatusByte(StatusOfByte(b)) = b
    /\ ReadDone("Bin") =>
           \A k \in 1..Len(records[1]), off \in {TX_TYPE_OFFSET, STATUS_OFFSET}, b \in BadCodes :
               stream[1] = BinDamaged(records[1], k, off, <<b>>)
                   => result = UnknownByte(off, b)
    /\ ReadDone("Txt") =>
           \A k \in 1..Len(records[1]), j \in EnumFields :
               \A v \in BadValues(j) :
                   stream[1] = TxtBadValue(records[1], k, j, v) => result = UnknownToken(j, v)
    /\ ReadDone("Csv") =>
           \A k \in 1..Len(records[1]), j \in EnumFields :
               \A v \in BadValues(j) :
                   stream[1] = CsvBadValue(records[1], k, j, v) => result = UnknownToken(j, v)

\* TxtFormat::read_all has rejected the kind "deposit" in the second block.
C12_Witness ==
    /\ ReadDone("Txt")
    /\ Len(records[1]) = 2
    /\ stream[1] = TxtBadValue(records[1], 2, 2, <<100, 101, 112, 111, 115, 105, 116>>)
    /\ result = Err("Parse", "unknown tx_type", <<100, 101, 112, 111, 115, 105, 116>>)

\* C13: a block of the block-text codec that lacks one of the eight keys
\* when it is flushed makes TxtFormat::read_all return Parse "missing
\* field: KEY" naming that key; FROM_USER_ID is one of them.
C13_MissingField ==
    ReadDone("Txt") =>
        \A k \in 1..Len(records[1]), j \in 1..8 :
            stream[1] = TxtMissing(records[1], k, j)
                => result = Err("Parse", "missing field", TxtFields[j].key)

\* TxtFormat::read_all has met a block without FROM_USER_ID, flushed by the
\* '#' line of the next block.
C13_Witness ==
    /\ ReadDone("Txt")
    /\ Len(records[1]) = 2
    /\ stream[1] = TxtMissing(records[1], 1, 3)
    /\ result = Err("Parse", "missing field", KEY_FROM_USER_ID)

---------------------------------------------------------------------------
(* write_all into a sink that takes a given number of bytes and no more.   *)

\* The state in which call starts on the list l with a sink of n bytes.
StartWrite(c, l, n) ==
    /\ call = c
    /\ cap = n
    /\ pc = "write1"
    /\ records = <<l, <<>>>>
    /\ stream = <<<<>>, <<>>, <<>>>>
    /\ w = NoWriter
    /\ rpos = <<0, 0>>
    /\ ncols = 0
    /\ transactions = <<>>
    /\ current = EmptyMap
    /\ decoded = <<NoResult, NoResult>>
    /\ cmp = NoCompare
    /\ result = NoResult

\* The sink fails nowhere, or at any byte of what write_all has to write.
InitWrite ==
    \E f \in Formats, l \in BinLists :
        \E n \in {NoCap} \cup 0..(Len(WriteAll(f, l)) - 1) :
            StartWrite([fn |-> "write_all", fmt1 |-> f, fmt2 |-> f], l, n)

NextWrite ==
    \/ BinWriteRecord
    \/ TxtWriteRecord
    \/ CsvWriteHeader
    \/ CsvWriteRow
    \/ WriteAllReturn
    \/ SinkFail

SpecWrite == InitWrite /\ [][NextWrite]_vars

WriteDone(f) == pc = "done" /\ call.fn = "write_all" /\ call.fmt1 = f

\* The header row of the table-text format as the specification gives it.
SpecHeader ==
    << <<105, 100>>,
       <<107, 105, 110, 100>>,
       <<102, 114, 111, 109, 65, 99, 99, 111, 117, 110, 116>>,
       <<116, 111, 65, 99, 99, 111, 117, 110, 116>>,
       <<97, 109, 111, 117, 110, 116>>,
       <<116, 105, 109, 101, 115, 116, 97, 109, 112>>,
       <<115, 116, 97, 116, 117, 115>>,
       <<100, 101, 115, 99, 114, 105, 112, 116, 105, 111, 110>> >>

\* C14: CsvFormat::write_all writes the header row once, as the first row,
\* for an empty list too, and the header is
\* id,kind,fromAccount,toAccount,amount,timestamp,status,description.
C14_CsvHeaderRow ==
    (WriteDone("Csv") /\ result.ok) =>
        /\ stream[1] = CsvRows(<<CsvReadRecordAt(stream[1], 0).fields>> \o CsvRowsOf(records[1]))
        /\ CsvReadRecordAt(stream[1], 0).fields = SpecHeader

\* The list without its first record.
Rest(list) == IF list = <<>> THEN <<>> ELSE Tail(list)

\* C15: CsvFormat::read_all takes the first row of the stream for the header
\* and never decodes it: of the rows of n + 1 records written with no header
\* before them it returns the last n, in order; of a single row, nothing.
C15_FirstRowIsHeader ==
    ReadDone("Csv") =>
        /\ stream[1] = CsvRows(CsvRowsOf(records[1])) => result = Ok(Rest(records[1]))
        /\ stream[1] = CsvRows(<<CsvHeader>> \o CsvRowsOf(records[1])) => result = Ok(records[1])

\* CsvFormat::read_all has read two data rows with no header before them and
\* returned the second only.
C15_Witness ==
    /\ ReadDone("Csv")
    /\ Len(records[1]) = 2
    /\ stream[1] = CsvRows(CsvRowsOf(records[1]))
    /\ result = Ok(<<records[1][2]>>)

\* The error of the text codecs for the value v in field j, by field names.
BadValueError(names, j, v) ==
    IF j \in EnumFields THEN UnknownToken(j, v) ELSE Err("Parse", names[j].name, <<>>)

\* C16: CsvFormat::read_all reports every malformed row as Err(Parse) and
\* never panics: a row with an unparsable integer or a foreign token gives
\* the error naming the field or the token, and a row with a column count
\* other than 8 gives an error, also when the header and all the rows have
\* that same column count.
C16_CsvErrorsNotPanics ==
    ReadDone("Csv") =>
        /\ ~result.ok => result.err.kind = "Parse"
        /\ \A k \in 1..Len(records[1]), j \in 1..8 :
               \A v \in BadValues(j) :
                   stream[1] = CsvBadValue(records[1], k, j, v)
                       => result = BadValueError(CsvFields, j, v)
        /\ \A n \in (1..MaxColumns) \ {8} :
               /\ (records[1] # <<>> /\ stream[1] = CsvTable(records[1], n))
                      => (~result.ok /\ result.err.kind = "Parse")
               /\ \A k \in 1..Len(records[1]) :
                      stream[1] = CsvBadRow(records[1], k, n)
                          => (~result.ok /\ result.err.kind = "Parse")

\* The offset of the end of line number n of data, or of data when it has
\* fewer lines.
LineEnd(data, n) ==
    IF n <= Cardinality({i \in 1..Len(data) : data[i] = LF}) THEN NthLF(data, n)
    ELSE Len(data)

\* The records of the list up to record k.
UpTo(list, k) == SubSeq(list, 1, k)

\* C17: read_all fails fast in each codec. When record k of a stream is
\* malformed, with well-formed records before it and after it, read_all
\* returns the error of that record and nothing else, and it has read
\* nothing of the records after it (the block-text reader has read the '#'
\* line that flushes the malformed block).
C17_FailFast ==
    /\ ReadDone("Bin") =>
           \A k \in 1..Len(records[1]), off \in {TX_TYPE_OFFSET, STATUS_OFFSET}, b \in BadCodes :
               stream[1] = BinDamaged(records[1], k, off, <<b>>) =>
                   /\ result = UnknownByte(off, b)
                   /\ rpos[1] = Boundary(records[1], k - 1) + off + 1
    /\ ReadDone("Txt") =>
           \A k \in 1..Len(records[1]), j \in 1..8 :
               /\ \A v \in BadValues(j) :
                      stream[1] = TxtBadValue(records[1], k, j, v) =>
                          /\ result = BadValueError(TxtFields, j, v)
                          /\ rpos[1] = LineEnd(stream[1], 10 * k + 1)
               /\ stream[1] = TxtMissing(records[1], k, j) =>
                      /\ result = Err("Parse", "missing field", TxtFields[j].key)
                      /\ rpos[1] = LineEnd(stream[1], 10 * k)
    /\ ReadDone("Csv") =>
           \A k \in 1..Len(records[1]) :
               /\ \A j \in 1..8 :
                      \A v \in BadValues(j) :
                          stream[1] = CsvBadValue(records[1], k, j, v) =>
                              /\ result = BadValueError(CsvFields, j, v)
                              /\ rpos[1] = Len(CsvBadValue(UpTo(records[1], k), k, j, v))
               /\ \A n \in (1..MaxColumns) \ {8} :
                      stream[1] = CsvBadRow(records[1], k, n) =>
                          /\ ~result.ok
                          /\ result.err.kind = "Parse"
                          /\ rpos[1] = Len(CsvBadRow(UpTo(records[1], k), k, n))

\* BinFormat::read_all has met a foreign status byte in the second of three
\* records and returned its error.
C17_Witness ==
    /\ ReadDone("Bin")
    /\ Len(records[1]) = 3
    /\ stream[1] = BinDamaged(records[1], 2, STATUS_OFFSET, <<4>>)
    /\ result = UnknownByte(STATUS_OFFSET, 4)

\* C18: when the sink fails while BinFormat::write_all or
\* TxtFormat::write_all is writing a record, write_all returns Err(Io) and
\* the sink holds the complete encodings of the records before it and
\* nothing of that record.
C18_WriteAtomic ==
    (pc = "done" /\ call.fn = "write_all" /\ call.fmt1 \in {"Bin", "Txt"} /\ ~result.ok) =>
        /\ result.err.kind = "Io"
        /\ \E n \in 0..Len(records[1]) : stream[1] = WriteAll(call.fmt1, UpTo(records[1], n))

---------------------------------------------------------------------------
(* convert and compare on streams that may be malformed, convert into a    *)
(* sink that may fail.                                                     *)

\* The state in which call starts on the source streams d1 and d2 (made of
\* the lists l1 and l2) with a sink of n bytes.
StartOn(c, l1, l2, d1, d2, n) ==
    /\ call = c
    /\ cap = n
    /\ pc = "read1"
    /\ records = <<l1, l2>>
    /\ stream = <<d1, d2, <<>>>>
    /\ w = NoWriter
    /\ rpos = <<0, 0>>
    /\ ncols = 0
    /\ transactions = <<>>
    /\ current = EmptyMap
    /\ decoded = <<NoResult, NoResult>>
    /\ cmp = NoCompare
    /\ result = NoResult

\* Malformed sources: a foreign byte, a missing key, a row of another width.
BadSources == BinEnumCases \cup TxtMissingCases \cup CsvBadRowCases

\* Capacities of a sink for n bytes of output: none accepted, half, all but
\* the last, or no limit.
CapsFor(n) == {NoCap} \cup IF n = 0 THEN {} ELSE {0, n \div 2, n - 1}

InitConvertFail ==
    \/ \E c \in BadSources, t \in Formats :
           StartOn([fn |-> "convert", fmt1 |-> c.fmt, fmt2 |-> t], c.list, <<>>, c.data, <<>>, NoCap)
    \/ \E f \in Formats, t \in Formats, l \in BinLists :
           \E n \in CapsFor(Len(WriteAll(t, l))) :
               StartOn([fn |-> "convert", fmt1 |-> f, fmt2 |-> t], l, <<>>, WriteAll(f, l), <<>>, n)

NextConvertFail ==
    \/ BinReadRecord
    \/ TxtReadLine
    \/ TxtReadEof
    \/ CsvReadHeader
    \/ CsvReadRow
    \/ BinWriteRecord
    \/ TxtWriteRecord
    \/ CsvWriteHeader
    \/ CsvWriteRow
    \/ WriteAllReturn
    \/ SinkFail

SpecConvertFail == InitConvertFail /\ [][NextConvertFail]_vars

\* C19: convert writes nothing before the source is decoded; when read_all
\* of the source fails convert returns that error and the destination has
\* received no byte; when it succeeds and the sink fails convert returns
\* the Io error of write_all.
C19_DecodeBeforeWrite ==
    call.fn = "convert" =>
        /\ pc = "read1" => (stream[3] = <<>> /\ w = NoWriter)
        /\ (pc = "done" /\ ~decoded[1].ok) => (result = decoded[1] /\ stream[3] = <<>>)
        /\ (pc = "done" /\ decoded[1].ok) =>
               LET out == WriteAll(call.fmt2, decoded[1].val)
               IN  IF cap = NoCap \/ Len(out) <= cap
                   THEN result = Ok(<<>>) /\ stream[3] = out
                   ELSE result = Err("Io", "WriteZero", <<>>) /\ stream[3] = Truncate(out, cap)

\* convert to CSV has failed on the second record of the source and the
\* destination is empty.
C19_Witness ==
    /\ pc = "done"
    /\ call.fn = "convert"
    /\ call.fmt2 = "Csv"
    /\ Len(records[1]) = 2
    /\ stream[1] = TxtMissing(records[1], 2, 3)
    /\ result = Err("Parse", "missing field", KEY_FROM_USER_ID)
    /\ stream[3] = <<>>

\* The sides of a comparison: one record, malformed or not, or none.
BadSides == {c \in BadSources : c.list = <<BaseTx>>}

GoodSides ==
    {[fmt |-> f, list |-> l, data |-> WriteAll(f, l)] :
        f \in Formats, l \in SeqsUpTo(BinTxSet, 1)}

InitCompareFail ==
    \E c1 \in BadSides \cup GoodSides, c2 \in BadSides \cup GoodSides :
        StartOn([fn |-> "compare", fmt1 |-> c1.fmt, fmt2 |-> c2.fmt],
                c1.list, c2.list, c1.data, c2.data, NoCap)

NextCompareFail ==
    \/ BinReadRecord
    \/ TxtReadLine
    \/ TxtReadEof
    \/ CsvReadHeader
    \/ CsvReadRow
    \/ CompareIndex
    \/ CompareVisit1
    \/ CompareVisit2
    \/ CompareReturn

SpecCompareFail == InitCompareFail /\ [][NextCompareFail]_vars

\* The malformed streams of codec f among the sides.
BadData(f) == {c.data : c \in {b \in BadSides : b.fmt = f}}

\* C20: compare returns no comparison when a side does not decode. When
\* side 1 is malformed it returns the error of side 1 and has read no byte
\* of side 2, malformed or not; when side 1 decodes and side 2 is malformed
\* it returns the error of side 2; Identical and Mismatch come only from two
\* decoded sides.
C20_CompareErrors ==
    call.fn = "compare" =>
        /\ pc \in {"read1", "read2"} => cmp = NoCompare
        /\ pc = "read1" => rpos[2] = 0
        /\ (pc = "done" /\ stream[1] \in BadData(call.fmt1)) =>
               /\ ~result.ok
               /\ result = decoded[1]
               /\ rpos[2] = 0
               /\ decoded[2] = NoResult
               /\ cmp = NoCompare
        /\ (pc = "done" /\ stream[1] \notin BadData(call.fmt1)
                /\ stream[2] \in BadData(call.fmt2)) =>
               /\ decoded[1].ok
               /\ ~result.ok
               /\ result = decoded[2]
               /\ cmp = NoCompare
        /\ (pc = "done" /\ result.ok) =>
               /\ decoded[1].ok
               /\ decoded[2].ok
               /\ result.val.tag \in {"Identical", "Mismatch"}

\* Both sides were malformed, in different codecs: compare returned the
\* error of side 1 and left side 2 unread.
C20_Witness ==
    /\ pc = "done"
    /\ call = [fn |-> "compare", fmt1 |-> "Txt", fmt2 |-> "Bin"]
    /\ stream[1] \in BadData("Txt")
    /\ stream[2] \in BadData("Bin")
    /\ result.err.kind = "Parse"
    /\ rpos[2] = 0

---------------------------------------------------------------------------
(* BinFormat::read_all on streams whose records declare a record_size of   *)
(* their own.                                                              *)

\* The four bytes of a declared record_size: 0, 45, 46, 47, 50, 4142 and
\* 2^31 - 1.
RecordSizes ==
    {<<0, 0, 0, 0>>, <<0, 0, 0, 45>>, <<0, 0, 0, 46>>, <<0, 0, 0, 47>>,
     <<0, 0, 0, 50>>, <<0, 0, 16, 46>>, <<127, 255, 255, 255>>}

\* The encoded list with the record_size field of record k set to sizes[k].
WithSizes(list, sizes) ==
    Concat([k \in 1..Len(list) |-> SetBytes(BinEncodeRecord(list[k]), 4, sizes[k])])

InitRecordSize ==
    \E l \in BinLists :
        \E sizes \in [1..Len(l) -> RecordSizes] :
            StartRead("Bin", l, WithSizes(l, sizes))

NextRecordSize == BinReadRecord

SpecRecordSize == InitRecordSize /\ [][NextRecordSize]_vars

\* The record_size fields of the stream read_all was called on.
DeclaredSizes ==
    [k \in 1..Len(records[1]) |-> Bytes(stream[1], Boundary(records[1], k - 1) + 4, 4)]

\* The first record of the list declaring less than 46, or 0.
FirstSmall(sizes) ==
    LET small == {k \in 1..Len(sizes) : from_be_bytes(sizes[k]) < MIN_RECORD_SIZE}
    IN  IF small = {} THEN 0 ELSE Min(small)

\* C21: the declared record_size acts on read_all only through the test
\* record_size >= 46. On a stream that differs from the encoding of a list
\* only in the record_size fields, read_all consumes each record up to the
\* boundary of the encoding and returns the list when every declared size is
\* at least 46, whether or not it is 46 + desc_len; the first record
\* declaring less than 46 makes it return InvalidBinary right after the
\* field.
C21_RecordSizeOnlyTested ==
    (call.fn = "read_all" /\ call.fmt1 = "Bin"
        /\ stream[1] = WithSizes(records[1], DeclaredSizes)) =>
        LET l     == records[1]
            n     == Len(transactions)
            small == FirstSmall(DeclaredSizes)
        IN  /\ pc = "read1" =>
                   /\ transactions = SubSeq(l, 1, n)
                   /\ rpos[1] = Boundary(l, n)
                   /\ small = 0 \/ n < small
            /\ (pc = "done" /\ small = 0) =>
                   /\ result = Ok(l)
                   /\ rpos[1] = Len(BinWriteAll(l))
            /\ (pc = "done" /\ small > 0) =>
                   /\ result = Err("InvalidBinary",
                                   "record_size is too small, minimum is 46 bytes",
                                   <<from_be_bytes(DeclaredSizes[small])>>)
                   /\ rpos[1] = Boundary(l, small - 1) + 8

\* read_all returned both records of a stream whose first record declares
\* 2^31 - 1 bytes and whose second declares 47.
C21_Witness ==
    /\ pc = "done"
    /\ call.fn = "read_all"
    /\ Len(records[1]) = 2
    /\ records[1][1].description # <<>>
    /\ stream[1] = WithSizes(records[1], <<<<127, 255, 255, 255>>, <<0, 0, 0, 47>>>>)
    /\ result = Ok(records[1])

---------------------------------------------------------------------------
(* TxtFormat::read_all on texts put together from comment lines, blank     *)
(* lines, lines without ':' and KEY: value lines.                          *)

MaxSegments == 3

\* The eight KEY: value lines write_all writes for a record, without the
\* '#' line before them and the empty line after them.
TxtBody(tx) ==
    LET b == DropLine(TxtEncodeRecord(0, tx), 1)
    IN  SubSeq(b, 1, Len(b) - 1)

\* "# x", "  #" (a '#' line once trimmed), an empty line, "junk" ending in
\* CR LF, the lines of a record, the line "TX_ID: 1" alone.
TxtSegments ==
    {<<HASH, 32, 120, LF>>,
     <<32, 32, HASH, LF>>,
     <<LF>>,
     <<106, 117, 110, 107, CR, LF>>,
     TxtLine(KEY_TX_ID, <<49>>)}
    \cup {TxtBody(tx) : tx \in BinTxSet}

TxtTexts == {Concat(s) : s \in SeqsUpTo(TxtSegments, MaxSegments)}

\* A text, whole or without the line feed of its last line.
InitTxtLines ==
    \E t \in TxtTexts :
        \/ StartRead("Txt", <<>>, t)
        \/ t # <<>> /\ StartRead("Txt", <<>>, Truncate(t, Len(t) - 1))

NextTxtLines ==
    \/ TxtReadLine
    \/ TxtReadEof

SpecTxtLines == InitTxtLines /\ [][NextTxtLines]_vars

\* The lines of the first n bytes of data, trimmed.
RECURSIVE TrimmedLines(_, _, _)
TrimmedLines(data, pos, n) ==
    IF pos >= n THEN <<>>
    ELSE LET line == NextLine(data, pos)
         IN  <<trim(line.text.val)>> \o TrimmedLines(data, line.next, n)

IsComment(line) == line # <<>> /\ line[1] = HASH

HasColon(line) == ~IsComment(line) /\ \E i \in 1..Len(line) : line[i] = COLON

\* Line i is a '#' line, and a line with ':' stands between it and the '#'
\* line before it (or the start of the text).
ClosesRecord(lines, i) ==
    /\ IsComment(lines[i])
    /\ \E j \in 1..(i - 1) :
           HasColon(lines[j]) /\ \A m \in (j + 1)..(i - 1) : ~IsComment(lines[m])

\* A line with ':' stands after the last '#' line.
OpenRecord(lines) ==
    \E j \in 1..Len(lines) :
        HasColon(lines[j]) /\ \A m \in (j + 1)..Len(lines) : ~IsComment(lines[m])

FlushCount(lines) == Cardinality({i \in 1..Len(lines) : ClosesRecord(lines, i)})

\* What read_all holds after the lines read so far.
C22_Accumulator ==
    (call.fn = "read_all" /\ call.fmt1 = "Txt") =>
        LET read == TrimmedLines(stream[1], 0, rpos[1])
            all  == TrimmedLines(stream[1], 0, Len(stream[1]))
        IN  /\ pc = "read1" =>
                   /\ Len(transactions) = FlushCount(read)
                   /\ (current # EmptyMap) <=> OpenRecord(read)
            /\ (pc = "done" /\ result.ok) =>
                   Len(result.val) = FlushCount(all) + (IF OpenRecord(all) THEN 1 ELSE 0)
            /\ (pc = "done" /\ \A i \in 1..Len(all) : ~HasColon(all[i])) =>
                   result = Ok(<<>>)

\* What a step of read_all does with the line it reads.
C22_LineStep ==
    (call.fn = "read_all" /\ call.fmt1 = "Txt" /\ pc = "read1"
        /\ rpos[1] < Len(stream[1])) =>
        LET line == trim(NextLine(stream[1], rpos[1]).text.val)
        IN  /\ (~IsComment(line) /\ ~HasColon(line)) =>
                   (pc' = "read1" /\ current' = current /\ transactions' = transactions)
            /\ (IsComment(line) /\ current = EmptyMap) =>
                   (pc' = "read1" /\ current' = EmptyMap /\ transactions' = transactions)
            /\ (IsComment(line) /\ current # EmptyMap /\ pc' = "read1") =>
                   (current' = EmptyMap /\ Len(transactions') = Len(transactions) + 1)

\* C22: after any prefix of lines TxtFormat::read_all has emitted as many
\* transactions as it met '#' lines with a non-empty accumulator; a '#' line
\* met with an empty accumulator emits nothing; blank lines and lines
\* without ':' change neither the accumulator nor the output; the end of the
\* stream flushes a non-empty accumulator as one last transaction; a text of
\* comment lines, blank lines and lines without ':' only, or an empty one,
\* reads as Ok of no transaction.
C22_AccumulatorProtocol == [](C22_Accumulator) /\ [][C22_LineStep]_vars

\* read_all returned two transactions: one closed by a '#' line, one by the
\* end of the text.
C22_Witness ==
    /\ pc = "done"
    /\ call.fn = "read_all"
    /\ stream[1] = TxtBody(BaseTx) \o <<HASH, 32, 120, LF>> \o TxtBody(BaseTx)
    /\ result = Ok(<<BaseTx, BaseTx>>)

\* C23: a stream that ends after the magic of a record and before the last
\* byte of that record, the records before it being whole and valid, makes
\* BinFormat::read_all return an Io error: not Ok, not InvalidBinary.
C23_TruncationIsIo ==
    (pc = "done" /\ call.fn = "read_all" /\ call.fmt1 = "Bin") =>
        \A k \in 0..(Len(records[1]) - 1) :
            LET n == Len(stream[1])
            IN  (/\ Boundary(records[1], k) + 4 <= n
                 /\ n < Boundary(records[1], k + 1)
                 /\ stream[1] = Truncate(BinWriteAll(records[1]), n))
                    => (/\ ~result.ok
                        /\ result.err.kind = "Io"
                        /\ result = IoEof)

\* read_all returned the Io error on a stream of two records that lacks
\* the last byte of the description of the second.
C23_Witness ==
    /\ pc = "done"
    /\ call.fn = "read_all"
    /\ records[1] = <<Transaction(2147483647, "Transfer", -1, -42, -1000, -1234567890, "Failure", <<>>), BaseTx>>
    /\ stream[1] = Truncate(BinWriteAll(records[1]), Len(BinWriteAll(records[1])) - 1)
    /\ result = IoEof

---------------------------------------------------------------------------
(* BinFormat::write_all into a sink that takes everything.                 *)

InitBinLayout ==
    \E l \in Lists \cup SeqsUpTo(BinTxSet \cup {[BaseTx EXCEPT !.description = <<233, 8364>>]},
                                MaxRecords) :
        StartWrite([fn |-> "write_all", fmt1 |-> "Bin", fmt2 |-> "Bin"], l, NoCap)

NextBinLayout ==
    \/ BinWriteRecord
    \/ WriteAllReturn

SpecBinLayout == InitBinLayout /\ [][NextBinLayout]_vars

\* The offset after record k of a list whose records take 54 bytes and the
\* bytes of their descriptions.
RECURSIVE LayoutOffset(_, _)
LayoutOffset(list, k) ==
    IF k = 0 THEN 0
    ELSE LayoutOffset(list, k - 1) + 54 + Len(as_bytes(list[k].description))

\* The bytes of out from offset b on are the record of tx, field by field.
LaidOutAt(out, b, tx) ==
    LET desc == as_bytes(tx.description)
    IN  /\ Bytes(out, b, 4) = <<89, 80, 66, 78>>
        /\ from_be_bytes(Bytes(out, b + 4, 4)) = 46 + Len(desc)
        /\ from_be_bytes(Bytes(out, b + 8, 8)) = tx.tx_id
        /\ out[b + 16 + 1] \in {0, 1, 2}
        /\ TxTypeOfByte(out[b + 16 + 1]) = tx.tx_type
        /\ from_be_bytes_i64(Bytes(out, b + 17, 8)) = tx.from_user_id
        /\ from_be_bytes_i64(Bytes(out, b + 25, 8)) = tx.to_user_id
        /\ from_be_bytes_i64(Bytes(out, b + 33, 8)) = tx.amount
        /\ from_be_bytes_i64(Bytes(out, b + 41, 8)) = tx.timestamp
        /\ out[b + 49 + 1] \in {0, 1, 2}
        /\ StatusOfByte(out[b + 49 + 1]) = tx.status
        /\ from_be_bytes(Bytes(out, b + 50, 4)) = Len(desc)
        /\ Bytes(out, b + 54, Len(desc)) = desc
        /\ tx.from_user_id = -1 =>
               Bytes(out, b + 17, 8) = <<255, 255, 255, 255, 255, 255, 255, 255>>
        /\ tx.amount = -1000 =>
               Bytes(out, b + 33, 8) = <<255, 255, 255, 255, 255, 255, 252, 24>>
        /\ tx.timestamp = 1234567890 =>
               Bytes(out, b + 41, 8) = <<0, 0, 0, 0, 73, 150, 2, 210>>

\* C24: BinFormat::write_all writes each record as magic at offsets 0-3,
\* record_size at 4-7, id at 8-15, the kind byte at 16, the accounts at
\* 17-24 and 25-32, amount at 33-40, timestamp at 41-48, the status byte at
\* 49, desc_len at 50-53 and then the bytes of the description, integers
\* big-endian and signed ones in two's complement; record_size is 46 plus
\* the length of the description in bytes, a record takes 54 bytes plus
\* that length, and the records follow each other in list order with
\* nothing between them.
C24_BinLayout ==
    WriteDone("Bin") =>
        /\ result = Ok(<<>>)
        /\ Len(stream[1]) = LayoutOffset(records[1], Len(records[1]))
        /\ \A k \in 1..Len(records[1]) :
               LaidOutAt(stream[1], LayoutOffset(records[1], k - 1), records[1][k])

\* write_all wrote a record of negative values and no description, then one
\* whose description takes more bytes than it has characters.
C24_Witness ==
    /\ WriteDone("Bin")
    /\ Len(records[1]) = 2
    /\ records[1][1].from_user_id = -1
    /\ records[1][1].description = <<>>
    /\ records[1][2].description = <<233, 8364>>
    /\ Len(stream[1]) = 54 + 59

---------------------------------------------------------------------------
(* compare with its sides exchanged.                                       *)

\* The orders in which a HashMap may yield the keys S.
Orders(S) ==
    {o \in [1..Cardinality(S) -> S] : \A i, j \in 1..Cardinality(S) : o[i] = o[j] => i = j}

\* The two loops of compare, the maps yielding their keys in the orders o1
\* and o2.
RECURSIVE Loop1(_, _, _)
Loop1(c, o1, i) == IF i > Len(o1) THEN c ELSE Loop1(Visit1(c, o1[i]), o1, i + 1)

RECURSIVE Loop2(_, _, _)
Loop2(c, o2, i) == IF i > Len(o2) THEN c ELSE Loop2(Visit2(c, o2[i]), o2, i + 1)

\* The results compare may return on the decoded lists l1 and l2.
CompareResults(l1, l2) ==
    LET c0 == [NoCompare EXCEPT !.map1 = CollectMap(l1), !.map2 = CollectMap(l2)]
    IN  {LET c == Loop2(Loop1(c0, o1, 1), o2, 1)
         IN  CompareOutcome(c.missing_in_1, c.missing_in_2, c.differing) :
             o1 \in Orders(DOMAIN c0.map1), o2 \in Orders(DOMAIN c0.map2)}

\* The entries of differing with their two records exchanged.
SwapRecords(d) == {<<d[i][1], d[i][3], d[i][2]>> : i \in 1..Len(d)}

\* C25: compare is symmetric under the exchange of its sides. Whatever
\* compare(B, A) returns, it is Identical exactly when compare(A, B) is; in
\* a Mismatch its missing_in_2 holds the ids of missing_in_1 of
\* compare(A, B), its missing_in_1 the ids of missing_in_2, and its
\* differing the entries of differing with the two records exchanged.
C25_CompareSymmetric ==
    Compared =>
        /\ result.val \in CompareResults(decoded[1].val, decoded[2].val)
        /\ \A s \in CompareResults(decoded[2].val, decoded[1].val) :
               /\ s.tag = result.val.tag
               /\ s.tag = "Mismatch" =>
                      /\ Range(s.missing_in_2) = Range(result.val.missing_in_1)
                      /\ Range(s.missing_in_1) = Range(result.val.missing_in_2)
                      /\ Range(s.differing) = SwapRecords(result.val.differing)

\* compare returned a Mismatch with an id the second side lacks and an id
\* whose records differ.
C25_Witness ==
    /\ Compared
    /\ result.val.tag = "Mismatch"
    /\ result.val.missing_in_1 = <<>>
    /\ Len(result.val.missing_in_2) = 1
    /\ Len(result.val.differing) = 1

\* C26: only a '#' line separates the records of a text. Two blocks of the
\* eight KEY: value lines with no '#' line between them, one right after
\* the other or with an empty line between, read without error as one
\* transaction, each field with the value of its later occurrence; a key
\* repeated in a block takes its last value.
C26_OnlyHashSeparates ==
    (pc = "done" /\ call.fn = "read_all" /\ call.fmt1 = "Txt") =>
        \A a \in BinTxSet :
            /\ \A b \in BinTxSet :
                   stream[1] \in {TxtBody(a) \o TxtBody(b), TxtBody(a) \o <<LF>> \o TxtBody(b)}
                       => result = Ok(<<b>>)
            /\ stream[1] = TxtBody(a) \o TxtLine(KEY_TX_ID, <<49>>)
                   => result = Ok(<<[a EXCEPT !.tx_id = 1]>>)
            /\ stream[1] = TxtLine(KEY_TX_ID, <<49>>) \o TxtBody(a)
                   => result = Ok(<<a>>)

\* read_all returned the second of two different records whose blocks had
\* only an empty line between them.
C26_Witness ==
    /\ pc = "done"
    /\ call.fn = "read_all"
    /\ stream[1] = TxtBody(Transaction(2147483647, "Transfer", -1, -42, -1000, -1234567890, "Failure", <<>>))
                       \o <<LF>> \o TxtBody(BaseTx)
    /\ result = Ok(<<BaseTx>>)

---------------------------------------------------------------------------
(* BinFormat::write_all, then BinFormat::read_all of what it wrote, on     *)
(* lists with descriptions around MAX_DESC_LEN bytes.                      *)

InitLongDesc ==
    \E l \in SeqsUpTo(BinTxSet \cup {LongTx(n) : n \in LongLengths \ {MAX_DESC_LEN - 1}},
                      MaxRecords) :
        Start([fn |-> "read_all", fmt1 |-> "Bin", fmt2 |-> "Bin"], l, <<>>)

NextLongDesc ==
    \/ BinWriteRecord
    \/ WriteAllReturn
    \/ BinReadRecord

SpecLongDesc == InitLongDesc /\ [][NextLongDesc]_vars

\* The records of the list whose description is longer than MAX_DESC_LEN.
Overlong(list) ==
    {k \in 1..Len(list) : Len(as_bytes(list[k].description)) > MAX_DESC_LEN}

\* C27: BinFormat::write_all does not check the length of a description.
\* For a list holding a description of more than 4096 bytes it returns Ok,
\* having written every record, that one with a desc_len above 4096 and all
\* its bytes; BinFormat::read_all of that very stream returns InvalidBinary
\* at the first such record.
C27_EncoderExceedsDecoder ==
    (call.fn = "read_all" /\ call.fmt1 = "Bin" /\ Overlong(records[1]) # {}) =>
        LET l == records[1]
            k == Min(Overlong(l))
            n == Len(as_bytes(l[k].description))
        IN  /\ pc \in {"read1", "done"} =>
                   /\ Len(stream[1]) = LayoutOffset(l, Len(l))
                   /\ \A j \in Overlong(l) :
                          from_be_bytes(Bytes(stream[1], LayoutOffset(l, j - 1) + 50, 4))
                              = Len(as_bytes(l[j].description))
            /\ pc = "done" =>
                   /\ result = TooLong(n)
                   /\ rpos[1] = LayoutOffset(l, k - 1) + 54

\* write_all wrote a record with no description and one with a description
\* of 4097 bytes, and read_all rejected the stream at the second.
C27_Witness ==
    /\ pc = "done"
    /\ call.fn = "read_all"
    /\ Len(records[1]) = 2
    /\ records[1][2] = LongTx(MAX_DESC_LEN + 1)
    /\ records[1][1].description = <<>>
    /\ Len(stream[1]) = 54 + 54 + MAX_DESC_LEN + 1
    /\ result = TooLong(MAX_DESC_LEN + 1)

====
